---- MODULE Spec2Model ----
(***************************************************************************)
(* Alarm classification, remediation lookup, documentation search and the  *)
(* two-agent response pipeline of the AI alert assistant.                   *)
(*                                                                         *)
(* A text is a sequence of one-character strings, so that str.lower(), the *)
(* "in" substring test, " ".join and re.findall are computed character by  *)
(* character as the Python code computes them.                             *)
(***************************************************************************)
EXTENDS Integers, Sequences, FiniteSets, TLC

\* ------------------------------------------------------------------ bounds
\* An alarm text handed to a tool is the concatenation of at most MaxFrags
\* fragments; an alert handed to the pipeline of at most MaxAlertFrags.
MaxFrags == 2

MaxAlertFrags == 1

\* Absent value (Python None / key not present).
None == "None"

\* ================================================================== state
VARIABLES
  pc,                  \* "tools": the tool functions are called directly;
                       \* "idle", "analysis", "action", "done": position of
                       \* AIAlertAssistant.analyze_alert; "cli", "returned":
                       \* position of process_alert before analyze_alert;
                       \* "conc": two invocations are under way (runs)
  alarm,               \* alarm_message: the alarm text being processed
  doc_result,          \* << >> or <<d>>: last result of search_alarm_documentation
  search_outcome,      \* << >> or <<[cause, status]>>: what went wrong in that
                       \* search, and the status the adapter returned
  last_event_id,       \* << >> or <<e>>: last result of identify_event_id
  first_event_id,      \* << >> or <<e>>: first result of identify_event_id
  steps,               \* << >> or <<[event_id, record]>>: last lookup
  first_steps,         \* << >> or <<[event_id, record]>>: first lookup
  credentials,         \* CONFLUENCE_URL, _USERNAME and _API_TOKEN are all set
  tools_cache,         \* [tools, valid]: _available_tools, _tools_cache_valid
  analysis_agent,      \* AIAlertAssistant.analysis_agent is set
  frontline_response,  \* AIAlertAssistant.frontline_response is set
  analysis_outcome,    \* << >> or <<o>>: the agent run of the analysis returned
                       \* a response or raised
  analysis_result,     \* << >> or <<r>>: what analysis_agent.analyze_alert returned
  action_outcome,      \* << >> or <<o>>: the agent run of the frontline agent
                       \* returned a response or raised
  response_result,     \* << >> or <<r>>: what frontline_response.take_action returned
  result,              \* << >> or <<r>>: what AIAlertAssistant.analyze_alert returned
  calls,               \* [analysis, frontline]: how often each agent was invoked
  authenticated,       \* << >> or <<b>>: what AIAlertAssistant.authenticate returned
  runs,                \* per concurrent invocation: its position, alarm text,
                       \* server behaviour, tool list, search result, agent
                       \* outcomes and final result
  cache_writes,        \* the invocations that have written the tool cache
  session,             \* a run of main.py: [mode, inputs, line, analyses,
                       \* status, printed, ended_by]
  copies               \* << >> or <<[op, agent, factory, module]>>: what the
                       \* three copies of one function returned for the
                       \* same arguments

vars ==
  <<pc, alarm, doc_result, search_outcome, last_event_id,
    first_event_id, steps, first_steps, credentials, tools_cache,
    analysis_agent, frontline_response, analysis_outcome, analysis_result,
    action_outcome, response_result, result, calls, authenticated, runs,
    cache_writes, session, copies>>

toolVars ==
  <<doc_result, search_outcome, last_event_id, first_event_id, steps,
    first_steps>>

pipelineVars ==
  <<analysis_agent, frontline_response, analysis_outcome, analysis_result,
    action_outcome, response_result, result, calls>>

sessionVars == <<authenticated, runs, cache_writes, session, copies>>

\* dict.get(key, default)
Get(d, key, default) == IF key \in DOMAIN d THEN d[key] ELSE default

\* ------------------------------------------------------------ text layer
\* The ASCII upper-case letters and their lower-case forms.
LowerMap ==
  ("A" :> "a") @@ ("B" :> "b") @@ ("C" :> "c") @@ ("D" :> "d") @@
  ("E" :> "e") @@ ("F" :> "f") @@ ("G" :> "g") @@ ("H" :> "h") @@
  ("I" :> "i") @@ ("J" :> "j") @@ ("K" :> "k") @@ ("L" :> "l") @@
  ("M" :> "m") @@ ("N" :> "n") @@ ("O" :> "o") @@ ("P" :> "p") @@
  ("Q" :> "q") @@ ("R" :> "r") @@ ("S" :> "s") @@ ("T" :> "t") @@
  ("U" :> "u") @@ ("V" :> "v") @@ ("W" :> "w") @@ ("X" :> "x") @@
  ("Y" :> "y") @@ ("Z" :> "z")

\* str.lower() on one character.
LowerChar(c) == IF c \in DOMAIN LowerMap THEN LowerMap[c] ELSE c

\* str.lower()
Lower(s) == [i \in 1..Len(s) |-> LowerChar(s[i])]

\* Python "p in s" for strings: p occurs as a contiguous substring of s.
Contains(s, p) ==
  \E i \in 1..(Len(s) - Len(p) + 1) : SubSeq(s, i, i + Len(p) - 1) = p

Digits == {"0", "1", "2", "3", "4", "5", "6", "7", "8", "9"}

\* Index of the first position >= i of s that does not hold a digit.
RECURSIVE DigitRunEnd(_, _)
DigitRunEnd(s, i) ==
  IF i <= Len(s) /\ s[i] \in Digits THEN DigitRunEnd(s, i + 1) ELSE i

\* re.findall(r"\d+%?", s): the non-overlapping matches, scanned left to
\* right from position i; each match is a maximal digit run and the percent
\* sign that directly follows it, if any.
RECURSIVE FindNumbers(_, _)
FindNumbers(s, i) ==
  IF i > Len(s) THEN << >>
  ELSE IF s[i] \in Digits
       THEN LET j == DigitRunEnd(s, i)
                k == IF j <= Len(s) /\ s[j] = "%" THEN j + 1 ELSE j
            IN <<SubSeq(s, i, k - 1)>> \o FindNumbers(s, k)
       ELSE FindNumbers(s, i + 1)

\* " ".join(dict.fromkeys(words)): a word that occurred before is left out.
RECURSIVE Join_unique(_)
Join_unique(words) ==
  LET n == Len(words)
      front == SubSeq(words, 1, n - 1)
  IN IF n = 0 THEN << >>
     ELSE IF \E j \in 1..(n - 1) : words[j] = words[n] THEN Join_unique(front)
     ELSE IF n = 1 THEN words[n]
     ELSE Join_unique(front) \o <<" ">> \o words[n]

\* " ".join(words)
RECURSIVE Join(_)
Join(words) ==
  IF Len(words) = 0 THEN << >>
  ELSE IF Len(words) = 1 THEN words[1]
  ELSE words[1] \o <<" ">> \o Join(Tail(words))

\* -------------------------------------------------------- keyword extractor
\* The vocabulary list of _extract_keywords, in scan order.
alert_keywords == <<
  <<"c", "p", "u">>,
  <<"m", "e", "m", "o", "r", "y">>,
  <<"d", "i", "s", "k">>,
  <<"c", "o", "n", "n", "e", "c", "t", "i", "o", "n">>,
  <<"r", "e", "p", "l", "i", "c", "a", "t", "i", "o", "n">>,
  <<"d", "e", "a", "d", "l", "o", "c", "k">>,
  <<"b", "a", "c", "k", "u", "p">>,
  <<"p", "e", "r", "f", "o", "r", "m", "a", "n", "c", "e">>,
  <<"q", "u", "e", "r", "y">>,
  <<"l", "o", "c", "k">>,
  <<"n", "e", "t", "w", "o", "r", "k">>,
  <<"a", "p", "p", "l", "i", "c", "a", "t", "i", "o", "n">>,
  <<"s", "e", "r", "v", "i", "c", "e">>,
  <<"s", "e", "r", "v", "e", "r">>,
  <<"s", "t", "o", "r", "a", "g", "e">>,
  <<"a", "u", "t", "h", "e", "n", "t", "i", "c", "a", "t", "i", "o", "n">>,
  <<"t", "i", "m", "e", "o", "u", "t">>
>>

\* The vocabulary words of kws[i..] that occur in alarm_lower, in list order.
RECURSIVE ScanKeywords(_, _, _)
ScanKeywords(alarm_lower, kws, i) ==
  IF i > Len(kws) THEN << >>
  ELSE (IF Contains(alarm_lower, kws[i]) THEN <<kws[i]>> ELSE << >>)
       \o ScanKeywords(alarm_lower, kws, i + 1)

\* _extract_keywords testing the vocabulary against the text as given,
\* without lower-casing it.
_extract_keywords_case_sensitive(alarm_message) ==
  LET keywords == ScanKeywords(alarm_message, alert_keywords, 1)
      numbers  == FindNumbers(alarm_message, 1)
  IN keywords \o numbers

\* _extract_keywords(alarm_message)
_extract_keywords(alarm_message) ==
  LET alarm_lower == Lower(alarm_message)
      keywords    == ScanKeywords(alarm_lower, alert_keywords, 1)
      numbers     == FindNumbers(alarm_message, 1)
  IN keywords \o numbers

\* ---------------------------------------------------------- event classifier
\* The closed set of identifiers.
EventIds == {"SYS-001", "SYS-002", "NET-001", "STO-001", "APP-001",
             "AUTH-001", "NET-002", "ALERT-UNKNOWN"}

\* "cpu" in alarm_lower and ("high" in ... or "90" in ... or "95" in ...)
CpuRule(alarm_lower) ==
  /\ Contains(alarm_lower, <<"c", "p", "u">>)
  /\ (Contains(alarm_lower, <<"h", "i", "g", "h">>)
      \/ Contains(alarm_lower, <<"9", "0">>)
      \/ Contains(alarm_lower, <<"9", "5">>))

\* "memory" in alarm_lower and ("critical" in ... or "exhausted" in ...)
MemoryRule(alarm_lower) ==
  /\ Contains(alarm_lower, <<"m", "e", "m", "o", "r", "y">>)
  /\ (Contains(alarm_lower, <<"c", "r", "i", "t", "i", "c", "a", "l">>)
      \/ Contains(alarm_lower, <<"e", "x", "h", "a", "u", "s", "t", "e", "d">>))

\* "connection" in alarm_lower and ("limit" in ... or "maximum" in ...)
ConnectionRule(alarm_lower) ==
  /\ Contains(alarm_lower, <<"c", "o", "n", "n", "e", "c", "t", "i", "o", "n">>)
  /\ (Contains(alarm_lower, <<"l", "i", "m", "i", "t">>)
      \/ Contains(alarm_lower, <<"m", "a", "x", "i", "m", "u", "m">>))

\* "disk" in alarm_lower and ("space" in ... or "full" in ...)
DiskRule(alarm_lower) ==
  /\ Contains(alarm_lower, <<"d", "i", "s", "k">>)
  /\ (Contains(alarm_lower, <<"s", "p", "a", "c", "e">>)
      \/ Contains(alarm_lower, <<"f", "u", "l", "l">>))

\* ("service" in ... or "application" in ...) and ("down" in ... or "failed" in ... or "unavailable" in ...)
ServiceRule(alarm_lower) ==
  /\ (Contains(alarm_lower, <<"s", "e", "r", "v", "i", "c", "e">>)
      \/ Contains(alarm_lower, <<"a", "p", "p", "l", "i", "c", "a", "t", "i", "o", "n">>))
  /\ (Contains(alarm_lower, <<"d", "o", "w", "n">>)
      \/ Contains(alarm_lower, <<"f", "a", "i", "l", "e", "d">>)
      \/ Contains(alarm_lower, <<"u", "n", "a", "v", "a", "i", "l", "a", "b", "l", "e">>))

\* "authentication" in alarm_lower or "login" in alarm_lower
AuthRule(alarm_lower) ==
  \/ Contains(alarm_lower, <<"a", "u", "t", "h", "e", "n", "t", "i", "c", "a", "t", "i", "o", "n">>)
  \/ Contains(alarm_lower, <<"l", "o", "g", "i", "n">>)

\* "network" in alarm_lower or "timeout" in alarm_lower
NetworkRule(alarm_lower) ==
  \/ Contains(alarm_lower, <<"n", "e", "t", "w", "o", "r", "k">>)
  \/ Contains(alarm_lower, <<"t", "i", "m", "e", "o", "u", "t">>)

\* identify_event_id with the memory rule tested before the CPU rule.
identify_event_id_memory_first(alarm_message, documentation) ==
  LET alarm_lower == Lower(alarm_message)
  IN IF MemoryRule(alarm_lower) THEN "SYS-002"
     ELSE IF CpuRule(alarm_lower) THEN "SYS-001"
     ELSE IF ConnectionRule(alarm_lower) THEN "NET-001"
     ELSE IF DiskRule(alarm_lower) THEN "STO-001"
     ELSE IF ServiceRule(alarm_lower) THEN "APP-001"
     ELSE IF AuthRule(alarm_lower) THEN "AUTH-001"
     ELSE IF NetworkRule(alarm_lower) THEN "NET-002"
     ELSE "ALERT-UNKNOWN"

\* identify_event_id that takes the identifier from the documentation when
\* the search found some.
identify_event_id_doc_found(alarm_message, documentation) ==
  LET alarm_lower == Lower(alarm_message)
  IN IF Get(documentation, "documentation_found", FALSE) THEN "DB-001"
     ELSE IF CpuRule(alarm_lower) THEN "SYS-001"
     ELSE IF MemoryRule(alarm_lower) THEN "SYS-002"
     ELSE IF ConnectionRule(alarm_lower) THEN "NET-001"
     ELSE IF DiskRule(alarm_lower) THEN "STO-001"
     ELSE IF ServiceRule(alarm_lower) THEN "APP-001"
     ELSE IF AuthRule(alarm_lower) THEN "AUTH-001"
     ELSE IF NetworkRule(alarm_lower) THEN "NET-002"
     ELSE "ALERT-UNKNOWN"

\* identify_event_id that answers with the docstring's example identifier
\* when the documentation carries an error.
identify_event_id_doc_error(alarm_message, documentation) ==
  LET alarm_lower == Lower(alarm_message)
  IN IF Get(documentation, "status", None) = "error" THEN "DB-001"
     ELSE IF CpuRule(alarm_lower) THEN "SYS-001"
     ELSE IF MemoryRule(alarm_lower) THEN "SYS-002"
     ELSE IF ConnectionRule(alarm_lower) THEN "NET-001"
     ELSE IF DiskRule(alarm_lower) THEN "STO-001"
     ELSE IF ServiceRule(alarm_lower) THEN "APP-001"
     ELSE IF AuthRule(alarm_lower) THEN "AUTH-001"
     ELSE IF NetworkRule(alarm_lower) THEN "NET-002"
     ELSE "ALERT-UNKNOWN"

\* identify_event_id that tests the text as given, without lower-casing it.
identify_event_id_case_sensitive(alarm_message, documentation) ==
  LET alarm_lower == alarm_message
  IN IF CpuRule(alarm_lower) THEN "SYS-001"
     ELSE IF MemoryRule(alarm_lower) THEN "SYS-002"
     ELSE IF ConnectionRule(alarm_lower) THEN "NET-001"
     ELSE IF DiskRule(alarm_lower) THEN "STO-001"
     ELSE IF ServiceRule(alarm_lower) THEN "APP-001"
     ELSE IF AuthRule(alarm_lower) THEN "AUTH-001"
     ELSE IF NetworkRule(alarm_lower) THEN "NET-002"
     ELSE "ALERT-UNKNOWN"

\* identify_event_id whose last rule is the else branch.
identify_event_id_no_sentinel(alarm_message, documentation) ==
  LET alarm_lower == Lower(alarm_message)
  IN IF CpuRule(alarm_lower) THEN "SYS-001"
     ELSE IF MemoryRule(alarm_lower) THEN "SYS-002"
     ELSE IF ConnectionRule(alarm_lower) THEN "NET-001"
     ELSE IF DiskRule(alarm_lower) THEN "STO-001"
     ELSE IF ServiceRule(alarm_lower) THEN "APP-001"
     ELSE IF AuthRule(alarm_lower) THEN "AUTH-001"
     ELSE "NET-002"

\* identify_event_id whose last rule returns an identifier the remediation
\* table has no entry for.
identify_event_id_unlisted(alarm_message, documentation) ==
  LET alarm_lower == Lower(alarm_message)
  IN IF CpuRule(alarm_lower) THEN "SYS-001"
     ELSE IF MemoryRule(alarm_lower) THEN "SYS-002"
     ELSE IF ConnectionRule(alarm_lower) THEN "NET-001"
     ELSE IF DiskRule(alarm_lower) THEN "STO-001"
     ELSE IF ServiceRule(alarm_lower) THEN "APP-001"
     ELSE IF AuthRule(alarm_lower) THEN "AUTH-001"
     ELSE IF NetworkRule(alarm_lower) THEN "NET-003"
     ELSE "ALERT-UNKNOWN"

\* identify_event_id(alarm_message, documentation): the if/elif chain over the
\* lower-cased text; the documentation argument is not read.
identify_event_id(alarm_message, documentation) ==
  LET alarm_lower == Lower(alarm_message)
  IN IF CpuRule(alarm_lower) THEN "SYS-001"
     ELSE IF MemoryRule(alarm_lower) THEN "SYS-002"
     ELSE IF ConnectionRule(alarm_lower) THEN "NET-001"
     ELSE IF DiskRule(alarm_lower) THEN "STO-001"
     ELSE IF ServiceRule(alarm_lower) THEN "APP-001"
     ELSE IF AuthRule(alarm_lower) THEN "AUTH-001"
     ELSE IF NetworkRule(alarm_lower) THEN "NET-002"
     ELSE "ALERT-UNKNOWN"

\* ------------------------------------------------------------ alarm texts
\* Pieces of alarm text: mixed case, rule words alone and in pairs, a word
\* split across two pieces, numbers with and without a percent sign.
Fragments == {
  \* "CPU High"
  <<"C", "P", "U", " ", "H", "i", "g", "h">>,
  \* "cp"
  <<"c", "p">>,
  \* "u 95% 7"
  <<"u", " ", "9", "5", "%", " ", "7">>,
  \* "Memory Critical"
  <<"M", "e", "m", "o", "r", "y", " ", "C", "r", "i", "t", "i", "c", "a", "l">>,
  \* "connection limit"
  <<"c", "o", "n", "n", "e", "c", "t", "i", "o", "n", " ", "l", "i", "m", "i", "t">>,
  \* "disk full"
  <<"d", "i", "s", "k", " ", "f", "u", "l", "l">>,
  \* "Service Down"
  <<"S", "e", "r", "v", "i", "c", "e", " ", "D", "o", "w", "n">>,
  \* "LOGIN"
  <<"L", "O", "G", "I", "N">>,
  \* "timeout"
  <<"t", "i", "m", "e", "o", "u", "t">>
}

RECURSIVE Flatten(_)
Flatten(fs) == IF Len(fs) = 0 THEN << >> ELSE fs[1] \o Flatten(Tail(fs))

TextsUpTo(n) ==
  UNION {{Flatten(fs) : fs \in [1..k -> Fragments]} : k \in 0..n}

Texts == TextsUpTo(MaxFrags)

\* The pieces of the alerts handed to the pipeline: a text a rule matches,
\* a text with numbers, and a text of one vocabulary word.
AlertFragments == {
  \* "CPU High"
  <<"C", "P", "U", " ", "H", "i", "g", "h">>,
  \* "u 95% 7"
  <<"u", " ", "9", "5", "%", " ", "7">>,
  \* "timeout"
  <<"t", "i", "m", "e", "o", "u", "t">>
}

AlertTexts ==
  UNION {{Flatten(fs) : fs \in [1..k -> AlertFragments]}
           : k \in 0..MaxAlertFrags}

\* ------------------------------------------------ troubleshooting knowledge base
\* The dict literal alert_steps of _get_predefined_steps.
alert_steps ==
  [e \in {"SYS-001", "SYS-002", "NET-001", "STO-001", "APP-001", "AUTH-001",
          "NET-002"} |->
     CASE e = "SYS-001" ->
            [event_name |-> "High CPU Usage",
             immediate_actions |->
               <<"Check top processes consuming CPU",
                 "Review system load averages",
                 "Identify resource-intensive applications",
                 "Consider scaling or load balancing">>,
             escalation |->
               "If CPU remains high for >15 minutes, page on-call engineer",
             severity |-> "Critical"]
       [] e = "SYS-002" ->
            [event_name |-> "Memory Pressure",
             immediate_actions |->
               <<"Review memory usage by processes",
                 "Check for memory leaks in applications",
                 "Clear unnecessary caches",
                 "Monitor swap usage and consider restart">>,
             escalation |->
               "Critical - immediate system admin involvement required",
             severity |-> "Critical"]
       [] e = "NET-001" ->
            [event_name |-> "Connection Limit Reached",
             immediate_actions |->
               <<"Review active connections",
                 "Check for connection leaks in applications",
                 "Increase connection limits if appropriate",
                 "Monitor connection pool usage">>,
             escalation |-> "If connections don't decrease within 10 minutes",
             severity |-> "Critical"]
       [] e = "STO-001" ->
            [event_name |-> "Disk Space Low",
             immediate_actions |->
               <<"Identify largest files and directories",
                 "Clean up temporary files and logs",
                 "Archive old data if possible",
                 "Consider adding storage capacity">>,
             escalation |-> "If disk usage >95%, immediate action required",
             severity |-> "High"]
       [] e = "APP-001" ->
            [event_name |-> "Service/Application Down",
             immediate_actions |->
               <<"Check service status and logs",
                 "Attempt service restart",
                 "Verify dependencies are running",
                 "Check for recent deployments or changes">>,
             escalation |-> "If service doesn't recover in 5 minutes, escalate",
             severity |-> "Critical"]
       [] e = "AUTH-001" ->
            [event_name |-> "Authentication Issues",
             immediate_actions |->
               <<"Check authentication service status",
                 "Review authentication logs",
                 "Verify user credentials and permissions",
                 "Check network connectivity to auth services">>,
             escalation |-> "If affecting multiple users, escalate immediately",
             severity |-> "High"]
       [] e = "NET-002" ->
            [event_name |-> "Network/Timeout Issues",
             immediate_actions |->
               <<"Check network connectivity",
                 "Review firewall and routing rules",
                 "Test DNS resolution",
                 "Monitor network latency and packet loss">>,
             escalation |-> "If affecting multiple services, escalate",
             severity |-> "High"]]

\* The default passed to alert_steps.get(event_id, ...).
default_steps ==
  [event_name |-> "Unknown Event",
   immediate_actions |-> <<"Review alarm details", "Check system logs">>,
   escalation |-> "Contact system admin team for analysis",
   severity |-> "Unknown"]

\* _get_predefined_steps that indexes the table, alert_steps[event_id], and
\* so raises KeyError on an identifier that is not a key.
_get_predefined_steps_index(event_id) ==
  IF event_id \in DOMAIN alert_steps THEN alert_steps[event_id]
  ELSE [raised |-> "KeyError"]

\* _get_predefined_steps(event_id): alert_steps.get(event_id, default)
_get_predefined_steps(event_id) ==
  IF event_id \in DOMAIN alert_steps THEN alert_steps[event_id]
  ELSE default_steps

\* get_troubleshooting_steps that keeps the record it returned last and
\* answers with it for an identifier that is not a table key.
get_troubleshooting_steps_cached(event_id) ==
  IF steps # << >> /\ event_id \notin DOMAIN alert_steps
  THEN steps[1].record
  ELSE _get_predefined_steps(event_id)

\* get_troubleshooting_steps(event_id)
get_troubleshooting_steps(event_id) == _get_predefined_steps(event_id)

\* ------------------------------------------------------- documentation lookup
\* The names get_confluence_tools filters the listed tools by.
confluence_tools ==
  {"getAccessibleAtlassianResources", "getConfluencePage", "searchContent",
   "getConfluenceSpace", "listConfluencePages"}

\* What list_tools of the MCP server may answer: nothing, tools without the
\* search tool, or the Confluence tools next to an unrelated one.
ServerToolLists ==
  {{}, {"getConfluencePage", "jira_search"},
   {"getAccessibleAtlassianResources", "getConfluencePage", "searchContent",
    "jira_search"}}

\* What the MCP server does during one search: list_tools answers (list_ok)
\* with the tools `tools`, call_tool completes (call_ok), and asyncio.run is
\* able to run the coroutine at all (run_ok).  A listing that fails lists
\* nothing, and a coroutine that never runs reaches neither call.
ServerBehaviours ==
  {b \in [list_ok : BOOLEAN, tools : ServerToolLists, call_ok : BOOLEAN,
          run_ok : BOOLEAN] :
     /\ ~b.list_ok => b.tools = {}
     /\ ~b.run_ok => ~b.list_ok /\ ~b.call_ok}

\* create_server_params raises ValueError unless URL, user name and token
\* are all set.
create_server_params_ok(creds) == creds

\* get_available_tools listing the tools without building the server
\* parameters first, so that missing credentials do not fail the listing.
get_available_tools_no_credentials(cache, creds, env) ==
  IF cache.tools = {} \/ ~cache.valid
  THEN IF env.list_ok
       THEN [tools |-> env.tools, valid |-> TRUE]
       ELSE [tools |-> {}, valid |-> FALSE]
  ELSE cache

\* AtlassianMCPClient.get_available_tools: the cache [tools, valid] after the
\* call; the tools are listed again when the cache is empty or invalid, and
\* a failed listing leaves the cache empty and invalid.
get_available_tools(cache, creds, env) ==
  IF cache.tools = {} \/ ~cache.valid
  THEN IF create_server_params_ok(creds) /\ env.list_ok
       THEN [tools |-> env.tools, valid |-> TRUE]
       ELSE [tools |-> {}, valid |-> FALSE]
  ELSE cache

\* AtlassianMCPClient.get_confluence_tools / filter_tools on the cache.
get_confluence_tools(cache) == cache.tools \cap confluence_tools

\* The fallback dicts of MCPToolManager.search_confluence_content.
search_unavailable(query) ==
  [status |-> "partial_success", query |-> query,
   message |-> "Documentation search unavailable, using general guidance",
   fallback |-> TRUE]

\* The "tool not available" dict without its fallback flag.
tool_not_available_no_flag(query) ==
  [status |-> "partial_success", query |-> query,
   message |-> "Search tool not available, providing general guidance"]

tool_not_available(query) ==
  [status |-> "partial_success", query |-> query,
   message |-> "Search tool not available, providing general guidance",
   fallback |-> TRUE]

\* search_confluence_content reporting a failed call the way
\* get_confluence_page does, with status error and no fallback flag.
search_confluence_content_error_dict(query, cache, creds, env) ==
  IF "searchContent" \in get_confluence_tools(cache)
  THEN IF create_server_params_ok(creds) /\ env.call_ok
       THEN [status |-> "success", query |-> query, results |-> "content"]
       ELSE [status |-> "error", query |-> query,
             message |-> "Failed to search"]
  ELSE tool_not_available(query)

\* MCPToolManager.search_confluence_content(query): the dict it returns,
\* given the tool cache after get_confluence_tools.
search_confluence_content(query, cache, creds, env) ==
  IF "searchContent" \in get_confluence_tools(cache)
  THEN IF create_server_params_ok(creds) /\ env.call_ok
       THEN [status |-> "success", query |-> query, results |-> "content"]
       ELSE search_unavailable(query)
  ELSE tool_not_available(query)

\* What asyncio.run(mcp_manager.search_confluence_content(q)) does for the
\* caller: it returns a dict (raised = FALSE) or raises (raised = TRUE).
Returned(d) == [raised |-> FALSE, value |-> d]

Raised(e) == [raised |-> TRUE, error |-> e]

\* search_alarm_documentation that reports documentation as found whenever
\* a search was performed, also when the search fell back.
search_alarm_documentation_found_on_partial(alarm_message, keywords, outcome) ==
  IF ~outcome.raised
  THEN LET search_result == outcome.value
           search_performed ==
             Get(search_result, "status", None)
               \in {"success", "partial_success"}
       IN [alarm_message |-> alarm_message,
           keywords |-> keywords,
           search_performed |-> search_performed,
           search_results |-> search_result,
           documentation_found |-> search_performed,
           fallback_used |-> Get(search_result, "fallback", FALSE)]
  ELSE [alarm_message |-> alarm_message,
        keywords |-> keywords,
        search_performed |-> FALSE,
        error |-> outcome.error,
        documentation_found |-> FALSE,
        fallback_used |-> TRUE]

\* search_alarm_documentation(alarm_message) after the keywords have been
\* extracted: the try block around the search, and the except branch that
\* builds the fallback result.
search_alarm_documentation(alarm_message, keywords, outcome) ==
  IF ~outcome.raised
  THEN LET search_result == outcome.value
           search_performed ==
             Get(search_result, "status", None)
               \in {"success", "partial_success"}
           documentation_found ==
             Get(search_result, "status", None) = "success"
       IN [alarm_message |-> alarm_message,
           keywords |-> keywords,
           search_performed |-> search_performed,
           search_results |-> search_result,
           documentation_found |-> documentation_found,
           fallback_used |-> Get(search_result, "fallback", FALSE)]
  ELSE [alarm_message |-> alarm_message,
        keywords |-> keywords,
        search_performed |-> FALSE,
        error |-> outcome.error,
        documentation_found |-> FALSE,
        fallback_used |-> TRUE]

\* ------------------------------------------------------------ tool inputs
\* An identifier a caller may look up besides the one the classifier
\* returned: the docstring's example.
OtherEventIds == {"DB-001"}

\* Documentation values a caller may pass to identify_event_id besides the
\* last search result: an empty dict and an error dict.
OtherDocumentation ==
  {[empty |-> TRUE], [status |-> "error", message |-> "Unable to search"]}

\* Results a documentation adapter handed to the standalone tool may return:
\* a success and a fallback dict as MCPToolManager builds them, and the error
\* dict of the adapter's page retrieval.
AdapterResults(query) ==
  {[status |-> "success", query |-> query, results |-> "content"],
   tool_not_available(query),
   [status |-> "error", message |-> "Page retrieval tool not available"]}

Errors == {"RuntimeError", "ConnectionError"}

\* ------------------------------------------------------------ tool calls
\* identify_event_id still callable after the analysis agent has returned.
IdentifyEventId_any_stage ==
  /\ pc \in {"tools", "analysis", "action"}
  /\ \E doc \in OtherDocumentation \cup {doc_result[i] : i \in DOMAIN doc_result} :
       LET e == identify_event_id(alarm, doc)
       IN /\ last_event_id' = <<e>>
          /\ first_event_id' = IF first_event_id = << >> THEN <<e>>
                               ELSE first_event_id
  /\ UNCHANGED <<pc, alarm, doc_result, search_outcome, steps,
                 first_steps, credentials, tools_cache>>
  /\ UNCHANGED pipelineVars
  /\ UNCHANGED sessionVars

\* identify_event_id(alarm_message, documentation), called on the alarm text
\* with the last search result or another documentation value.
IdentifyEventId ==
  /\ pc \in {"tools", "analysis"}
  /\ \E doc \in OtherDocumentation \cup {doc_result[i] : i \in DOMAIN doc_result} :
       LET e == identify_event_id(alarm, doc)
       IN /\ last_event_id' = <<e>>
          /\ first_event_id' = IF first_event_id = << >> THEN <<e>>
                               ELSE first_event_id
  /\ UNCHANGED <<pc, alarm, doc_result, search_outcome, steps,
                 first_steps, credentials, tools_cache>>
  /\ UNCHANGED pipelineVars
  /\ UNCHANGED sessionVars

\* get_troubleshooting_steps(event_id), called on the identifier the
\* classifier returned or on another identifier string.
GetTroubleshootingSteps ==
  /\ pc \in {"tools", "analysis"}
  /\ \E e \in OtherEventIds \cup {last_event_id[i] : i \in DOMAIN last_event_id} :
       LET r == [event_id |-> e, record |-> get_troubleshooting_steps(e)]
       IN /\ steps' = <<r>>
          /\ first_steps' = IF first_steps = << >> THEN <<r>> ELSE first_steps
  /\ UNCHANGED <<pc, alarm, doc_result, search_outcome, last_event_id,
                 first_event_id, credentials, tools_cache>>
  /\ UNCHANGED pipelineVars
  /\ UNCHANGED sessionVars

\* search_alarm_documentation(mcp_manager, alarm_message) of the standalone
\* tool module, with whatever adapter the caller passes as mcp_manager.
SearchAlarmDocumentation ==
  /\ pc = "tools"
  /\ LET keywords == _extract_keywords(alarm)
         search_query == Join(keywords)
     IN \E o \in {Returned(d) : d \in AdapterResults(search_query)}
                   \cup {Raised(e) : e \in Errors} :
          /\ doc_result' =
               <<search_alarm_documentation(alarm, keywords, o)>>
          /\ search_outcome' =
               <<[cause |-> IF o.raised THEN "raised" ELSE "none",
                  status |-> IF o.raised THEN "raised"
                             ELSE Get(o.value, "status", None)]>>
  /\ UNCHANGED <<pc, alarm, last_event_id, first_event_id, steps,
                 first_steps, credentials, tools_cache>>
  /\ UNCHANGED pipelineVars
  /\ UNCHANGED sessionVars

\* Why a search through MCPToolManager fails, read off the server's
\* behaviour: asyncio.run raises, the tool listing fails, the listed or
\* cached tools lack searchContent, or call_tool raises.
FailureCause(cache, creds, env) ==
  LET lists == cache.tools = {} \/ ~cache.valid
      known == IF lists THEN env.tools ELSE cache.tools
  IN IF ~env.run_ok THEN "run_raised"
     ELSE IF lists /\ ~(creds /\ env.list_ok) THEN "listing_failed"
     ELSE IF "searchContent" \notin known THEN "tool_missing"
     ELSE IF ~env.call_ok THEN "call_raised"
     ELSE "none"

\* AlertAnalysisAgent.search_alarm_documentation(alarm_message): the search
\* goes through MCPToolManager.search_confluence_content, which refreshes
\* the client's tool cache first.
AgentSearchAlarmDocumentation ==
  /\ pc = "analysis"
  /\ LET keywords == _extract_keywords(alarm)
         search_query == Join(keywords)
     IN \E env \in ServerBehaviours :
       LET cache == get_available_tools(tools_cache, credentials, env)
           o == IF env.run_ok
                THEN Returned(search_confluence_content(search_query, cache,
                                                        credentials, env))
                ELSE Raised("RuntimeError")
       IN /\ doc_result' =
               <<search_alarm_documentation(alarm, keywords, o)>>
          /\ search_outcome' =
               <<[cause |-> FailureCause(tools_cache, credentials, env),
                  status |-> IF o.raised THEN "raised"
                             ELSE Get(o.value, "status", None)]>>
          /\ tools_cache' = IF env.run_ok THEN cache ELSE tools_cache
  /\ UNCHANGED <<pc, alarm, last_event_id, first_event_id, steps,
                 first_steps, credentials>>
  /\ UNCHANGED pipelineVars
  /\ UNCHANGED sessionVars

\* --------------------------------------------------------------- pipeline
\* What the language model may answer.
AnalysisResponses == {"analysis: event SYS-001"}

FrontlineResponses == {"emailed customer"}

\* analyze_alert whose except branch reports a fixed text instead of str(e).
agent_analyze_alert_fixed_text(alert_message, outcome) ==
  IF ~outcome.raised
  THEN [alert_message |-> alert_message,
        analysis_response |-> outcome.value,
        status |-> "success"]
  ELSE [alert_message |-> alert_message,
        error |-> "Analysis failed",
        status |-> "error"]

\* AlertAnalysisAgent.analyze_alert(alert_message): the agent run returns a
\* response, or raises and the except branch builds the error dict.
agent_analyze_alert(alert_message, outcome) ==
  IF ~outcome.raised
  THEN [alert_message |-> alert_message,
        analysis_response |-> outcome.value,
        status |-> "success"]
  ELSE [alert_message |-> alert_message,
        error |-> outcome.error,
        status |-> "error"]

\* FrontlineResponseAgent.take_action(alarm_text, analysis)
take_action(alarm_text, analysis, outcome) ==
  IF ~outcome.raised
  THEN [alarm_text |-> alarm_text,
        analysis |-> analysis,
        response |-> outcome.value,
        status |-> "success"]
  ELSE [alarm_text |-> alarm_text,
        analysis |-> analysis,
        error |-> outcome.error,
        status |-> "error"]

\* The end of analyze_alert returning the analysis result whatever the
\* frontline agent answered.
final_result_keep_analysis(alert_message, analysis_result_, response_result_) ==
  analysis_result_

\* The end of analyze_alert handing the frontline agent's dict to the caller
\* unchanged, with its response under the key response.
final_result_raw_response(alert_message, analysis_result_, response_result_) ==
  IF response_result_.status = "success"
  THEN response_result_
  ELSE analysis_result_

\* The end of analyze_alert with the frontline failure passed on to the
\* caller instead of the fallback to the analysis result.
final_result_propagate(alert_message, analysis_result_, response_result_) ==
  IF response_result_.status = "success"
  THEN [alert_message |-> alert_message,
        analysis_response |-> response_result_.response,
        status |-> "success"]
  ELSE [alert_message |-> alert_message,
        error |-> response_result_.error,
        status |-> "error"]

\* The end of AIAlertAssistant.analyze_alert: the frontline response on
\* success, the analysis result otherwise.
final_result(alert_message, analysis_result_, response_result_) ==
  IF response_result_.status = "success"
  THEN [alert_message |-> alert_message,
        analysis_response |-> response_result_.response,
        status |-> "success"]
  ELSE analysis_result_

\* AIAlertAssistant.analyze_alert(alert_message) up to its first await: the
\* two guards, then the call of the analysis agent.
ReceiveAlert ==
  /\ pc = "idle"
  /\ \E t \in AlertTexts :
       /\ alarm' = t
       /\ IF ~analysis_agent
          THEN /\ result' = <<[error |-> "Analysis agent not available",
                               status |-> "error"]>>
               /\ pc' = "done"
          ELSE IF ~frontline_response
          THEN /\ result' =
                    <<[error |-> "Frontline response agent not available",
                       status |-> "error"]>>
               /\ pc' = "done"
          ELSE /\ result' = result
               /\ pc' = "analysis"
       /\ calls' = IF analysis_agent /\ frontline_response
                   THEN [calls EXCEPT !.analysis = @ + 1]
                   ELSE calls
  /\ UNCHANGED toolVars
  /\ UNCHANGED <<credentials, tools_cache, analysis_agent, frontline_response,
                 analysis_outcome, analysis_result, action_outcome,
                 response_result>>
  /\ UNCHANGED sessionVars

\* analyze_alert going on to the frontline agent whatever the status of the
\* analysis result.
AnalysisCompletes_dispatch_always ==
  /\ pc = "analysis"
  /\ \E o \in {Returned(r) : r \in AnalysisResponses}
                \cup {Raised(e) : e \in Errors} :
       /\ analysis_outcome' = <<o>>
       /\ analysis_result' = <<agent_analyze_alert(alarm, o)>>
       /\ result' = result
       /\ calls' = [calls EXCEPT !.frontline = @ + 1]
       /\ pc' = "action"
  /\ UNCHANGED toolVars
  /\ UNCHANGED <<alarm, credentials, tools_cache, analysis_agent,
                 frontline_response, action_outcome, response_result>>
  /\ UNCHANGED sessionVars

\* AnalysisCompletes that calls the analysis agent a second time when its
\* result has status error, instead of returning that result.
AnalysisCompletes_retry ==
  /\ pc = "analysis"
  /\ \E o \in {Returned(r) : r \in AnalysisResponses}
                \cup {Raised(e) : e \in Errors} :
       LET ar == agent_analyze_alert(alarm, o)
       IN /\ analysis_outcome' = <<o>>
          /\ analysis_result' = <<ar>>
          /\ IF ar.status # "success" /\ calls.analysis < 2
             THEN /\ result' = result
                  /\ calls' = [calls EXCEPT !.analysis = @ + 1]
                  /\ pc' = "analysis"
             ELSE IF ar.status # "success"
             THEN /\ result' = <<ar>>
                  /\ calls' = calls
                  /\ pc' = "done"
             ELSE /\ result' = result
                  /\ calls' = [calls EXCEPT !.frontline = @ + 1]
                  /\ pc' = "action"
  /\ UNCHANGED toolVars
  /\ UNCHANGED <<alarm, credentials, tools_cache, analysis_agent,
                 frontline_response, action_outcome, response_result>>
  /\ UNCHANGED sessionVars

\* The analysis agent returns to AIAlertAssistant.analyze_alert, which
\* returns the analysis result unless its status is success and otherwise
\* goes on to the frontline agent.
AnalysisCompletes ==
  /\ pc = "analysis"
  /\ \E o \in {Returned(r) : r \in AnalysisResponses}
                \cup {Raised(e) : e \in Errors} :
       LET ar == agent_analyze_alert(alarm, o)
       IN /\ analysis_outcome' = <<o>>
          /\ analysis_result' = <<ar>>
          /\ IF ar.status # "success"
             THEN /\ result' = <<ar>>
                  /\ calls' = calls
                  /\ pc' = "done"
             ELSE /\ result' = result
                  /\ calls' = [calls EXCEPT !.frontline = @ + 1]
                  /\ pc' = "action"
  /\ UNCHANGED toolVars
  /\ UNCHANGED <<alarm, credentials, tools_cache, analysis_agent,
                 frontline_response, action_outcome, response_result>>
  /\ UNCHANGED sessionVars

\* The frontline agent returns to AIAlertAssistant.analyze_alert, which
\* returns the final result.
ActionCompletes ==
  /\ pc = "action"
  /\ \E o \in {Returned(r) : r \in FrontlineResponses}
                \cup {Raised(e) : e \in Errors} :
       LET rr == take_action(alarm,
                             analysis_result[1].analysis_response, o)
       IN /\ action_outcome' = <<o>>
          /\ response_result' = <<rr>>
          /\ result' = <<final_result(alarm, analysis_result[1], rr)>>
          /\ pc' = "done"
  /\ UNCHANGED toolVars
  /\ UNCHANGED <<alarm, credentials, tools_cache, analysis_agent,
                 frontline_response, analysis_outcome, analysis_result, calls>>
  /\ UNCHANGED sessionVars

\* --------------------------------------------------------- authentication
\* The methods class AtlassianMCPClient defines.
AtlassianMCPClient_methods ==
  {"_start_mcp_server", "create_server_params", "authenticate",
   "get_available_tools", "filter_tools", "get_confluence_tools"}

\* AIAlertAssistant.authenticate of core/application.py: it awaits
\* atlassian_client.validate_configuration() inside a try block and returns
\* True when that returned a true value; the lookup of a method the client
\* does not define raises AttributeError, and the except branch returns
\* False.
authenticate(creds) ==
  LET outcome == IF "validate_configuration" \in AtlassianMCPClient_methods
                 THEN Returned(create_server_params_ok(creds))
                 ELSE Raised("AttributeError")
  IN IF outcome.raised THEN FALSE ELSE outcome.value

\* process_alert(alert_message) of interfaces/cli.py up to its call of
\* analyze_alert: it awaits authenticate() on the assistant it constructed
\* and returns when the answer is false.
ProcessAlert ==
  /\ pc = "cli"
  /\ LET b == authenticate(credentials)
     IN /\ authenticated' = <<b>>
        /\ pc' = IF b THEN "idle" ELSE "returned"
  /\ UNCHANGED <<alarm, credentials, tools_cache, runs, cache_writes, session,
                 copies>>
  /\ UNCHANGED toolVars
  /\ UNCHANGED pipelineVars

\* ---------------------------------------------------------- specifications
NoCache == [tools |-> {}, valid |-> FALSE]

\* The two concurrent invocations of analyze_alert on one assistant.
Runs == {1, 2}

\* An invocation that has not been made yet.
NewRun ==
  [pc |-> "new", alarm |-> << >>, env |-> << >>, tools |-> {},
   doc |-> << >>, analysis |-> << >>, action |-> << >>, result |-> << >>]

\* A run of main.py that has not started: no line read, analyze_alert not
\* called, nothing printed.
NewSession ==
  [mode |-> "none", inputs |-> 0, line |-> << >>, analyses |-> 0,
   status |-> << >>, printed |-> 0, ended_by |-> "none"]

InitCommon ==
  /\ session = NewSession
  /\ copies = << >>
  /\ doc_result = << >>
  /\ search_outcome = << >>
  /\ last_event_id = << >>
  /\ first_event_id = << >>
  /\ steps = << >>
  /\ first_steps = << >>
  /\ tools_cache = NoCache
  /\ analysis_agent = TRUE
  /\ frontline_response = TRUE
  /\ analysis_outcome = << >>
  /\ analysis_result = << >>
  /\ action_outcome = << >>
  /\ response_result = << >>
  /\ result = << >>
  /\ calls = [analysis |-> 0, frontline |-> 0]
  /\ authenticated = << >>
  /\ runs = [r \in Runs |-> NewRun]
  /\ cache_writes = {}

\* The assistant after construction, before an alert arrives: constructed
\* by a caller that will call analyze_alert ("idle"), or by process_alert
\* of the command line interface ("cli").
Init ==
  /\ pc \in {"idle", "cli"}
  /\ alarm = << >>
  /\ credentials \in BOOLEAN
  /\ InitCommon

Next ==
  \/ ProcessAlert
  \/ ReceiveAlert
  \/ AgentSearchAlarmDocumentation
  \/ IdentifyEventId
  \/ GetTroubleshootingSteps
  \/ AnalysisCompletes
  \/ ActionCompletes

Spec == Init /\ [][Next]_vars

\* The agent run of the analysis stage and the agent run of the action
\* stage each return or raise: the step that ends a stage is taken once the
\* stage has been entered, however many tools the analysis agent calls.
Fairness == WF_vars(AnalysisCompletes) /\ WF_vars(ActionCompletes)

SpecLive == Init /\ [][Next]_vars /\ Fairness

\* The tool functions called directly on an alarm text.
InitTools ==
  /\ pc = "tools"
  /\ alarm \in Texts
  /\ credentials = FALSE
  /\ InitCommon

NextTools ==
  \/ SearchAlarmDocumentation
  \/ IdentifyEventId
  \/ GetTroubleshootingSteps

SpecTools == InitTools /\ [][NextTools]_vars

\* ------------------------------------------------ concurrent invocations
\* Two invocations of analyze_alert on one assistant, for independent
\* alarms.  They share the client's tool cache (tools_cache); an invocation
\* may be overtaken by the other at every await of get_available_tools and
\* of the tool call.
ConcAlarm(r) ==
  IF r = 1 THEN <<"C", "P", "U", " ", "H", "i", "g", "h">>
  ELSE <<"t", "i", "m", "e", "o", "u", "t">>

\* What the server does for the calls of one invocation; asyncio.run itself
\* works.
ConcBehaviours == {b \in ServerBehaviours : b.run_ok}

\* search_alarm_documentation's result for the invocation when the adapter
\* returned dict d.
RunDoc(run, d) ==
  search_alarm_documentation(run.alarm, _extract_keywords(run.alarm),
                             Returned(d))

\* The rest of search_confluence_content once get_confluence_tools has
\* returned the tools: the search tool is called next, or the "tool not
\* available" dict is the result.
AfterTools(run, tools) ==
  IF "searchContent" \in tools \cap confluence_tools
  THEN [run EXCEPT !.tools = tools, !.pc = "calling"]
  ELSE [run EXCEPT
          !.tools = tools,
          !.pc = "analysis",
          !.doc = <<RunDoc(run, tool_not_available(
                                  Join(_extract_keywords(run.alarm))))>>]

concFrame ==
  <<pc, alarm, credentials, toolVars, pipelineVars, authenticated, session,
    copies>>

\* analyze_alert is called for invocation r and awaits the analysis agent.
ConcReceiveAlert(r) ==
  /\ pc = "conc"
  /\ runs[r].pc = "new"
  /\ \E env \in ConcBehaviours :
       runs' = [runs EXCEPT ![r] = [runs[r] EXCEPT !.pc = "analysis",
                                                   !.alarm = ConcAlarm(r),
                                                   !.env = <<env>>]]
  /\ UNCHANGED <<tools_cache, cache_writes>>
  /\ UNCHANGED concFrame

\* The agent of invocation r calls the search tool: get_available_tools
\* tests the cache; with a usable cache it returns the cached tools, without
\* credentials create_server_params raises at once and the except branch
\* empties the cache, otherwise the listing begins.
ConcSearchStart(r) ==
  /\ pc = "conc"
  /\ runs[r].pc = "analysis"
  /\ runs[r].doc = << >>
  /\ IF tools_cache.tools = {} \/ ~tools_cache.valid
     THEN IF ~create_server_params_ok(credentials)
          THEN /\ tools_cache' = NoCache
               /\ cache_writes' = cache_writes \cup {r}
               /\ runs' = [runs EXCEPT ![r] = AfterTools(runs[r], {})]
          ELSE /\ runs' = [runs EXCEPT ![r].pc = "listing"]
               /\ UNCHANGED <<tools_cache, cache_writes>>
     ELSE /\ runs' = [runs EXCEPT ![r] = AfterTools(runs[r], tools_cache.tools)]
          /\ UNCHANGED <<tools_cache, cache_writes>>
  /\ UNCHANGED concFrame

\* list_tools of invocation r answers: the tools are stored in the cache and
\* the invocation waits in the exit of "async with"; or the listing raises,
\* the except branch empties the cache and the empty list is returned.
ConcListTools(r) ==
  /\ pc = "conc"
  /\ runs[r].pc = "listing"
  /\ IF runs[r].env[1].list_ok
     THEN /\ tools_cache' = [tools |-> runs[r].env[1].tools, valid |-> TRUE]
          /\ runs' = [runs EXCEPT ![r].pc = "exiting"]
     ELSE /\ tools_cache' = NoCache
          /\ runs' = [runs EXCEPT ![r] = AfterTools(runs[r], {})]
  /\ cache_writes' = cache_writes \cup {r}
  /\ UNCHANGED concFrame

\* get_available_tools of invocation r returns self._available_tools as it
\* is now.
ConcListReturn(r) ==
  /\ pc = "conc"
  /\ runs[r].pc = "exiting"
  /\ runs' = [runs EXCEPT ![r] = AfterTools(runs[r], tools_cache.tools)]
  /\ UNCHANGED <<tools_cache, cache_writes>>
  /\ UNCHANGED concFrame

\* call_tool of invocation r returns or raises, and the search tool returns
\* its result to the agent.
ConcCallTool(r) ==
  /\ pc = "conc"
  /\ runs[r].pc = "calling"
  /\ LET query == Join(_extract_keywords(runs[r].alarm))
         d == IF create_server_params_ok(credentials)
                   /\ runs[r].env[1].call_ok
              THEN [status |-> "success", query |-> query,
                    results |-> "content"]
              ELSE search_unavailable(query)
     IN runs' = [runs EXCEPT ![r].pc = "analysis",
                             ![r].doc = <<RunDoc(runs[r], d)>>]
  /\ UNCHANGED <<tools_cache, cache_writes>>
  /\ UNCHANGED concFrame

\* The analysis agent of invocation r returns or raises.
ConcAnalysisCompletes(r) ==
  /\ pc = "conc"
  /\ runs[r].pc = "analysis"
  /\ \E o \in {Returned(a) : a \in AnalysisResponses}
                \cup {Raised(e) : e \in Errors} :
       LET ar == agent_analyze_alert(runs[r].alarm, o)
       IN runs' = [runs EXCEPT ![r] =
                    IF ar.status # "success"
                    THEN [runs[r] EXCEPT !.analysis = <<o>>,
                                         !.result = <<ar>>,
                                         !.pc = "done"]
                    ELSE [runs[r] EXCEPT !.analysis = <<o>>,
                                         !.pc = "action"]]
  /\ UNCHANGED <<tools_cache, cache_writes>>
  /\ UNCHANGED concFrame

\* The frontline agent of invocation r returns or raises, and analyze_alert
\* returns.
ConcActionCompletes(r) ==
  /\ pc = "conc"
  /\ runs[r].pc = "action"
  /\ \E o \in {Returned(a) : a \in FrontlineResponses}
                \cup {Raised(e) : e \in Errors} :
       LET ar == agent_analyze_alert(runs[r].alarm, runs[r].analysis[1])
           rr == take_action(runs[r].alarm, ar.analysis_response, o)
       IN runs' = [runs EXCEPT
                    ![r].action = <<o>>,
                    ![r].result =
                      <<final_result(runs[r].alarm, ar, rr)>>,
                    ![r].pc = "done"]
  /\ UNCHANGED <<tools_cache, cache_writes>>
  /\ UNCHANGED concFrame

InitConc ==
  /\ pc = "conc"
  /\ alarm = << >>
  /\ credentials \in BOOLEAN
  /\ InitCommon

NextConc ==
  \/ \E r \in Runs : ConcReceiveAlert(r)
  \/ \E r \in Runs : ConcSearchStart(r)
  \/ \E r \in Runs : ConcListTools(r)
  \/ \E r \in Runs : ConcListReturn(r)
  \/ \E r \in Runs : ConcCallTool(r)
  \/ \E r \in Runs : ConcAnalysisCompletes(r)
  \/ \E r \in Runs : ConcActionCompletes(r)

SpecConc == InitConc /\ [][NextConc]_vars

\* What the search of an invocation returns when it is the only invocation
\* on a new assistant, given what the server does for its calls.
AloneDoc(run) ==
  LET keywords == _extract_keywords(run.alarm)
      cache == get_available_tools(NoCache, credentials, run.env[1])
  IN search_alarm_documentation(
       run.alarm, keywords,
       Returned(search_confluence_content(Join(keywords), cache,
                                          credentials, run.env[1])))

\* What analyze_alert returns for the agent outcomes of an invocation.
AloneResult(run) ==
  LET ar == agent_analyze_alert(run.alarm, run.analysis[1])
  IN IF ar.status # "success" THEN ar
     ELSE final_result(run.alarm, ar,
                       take_action(run.alarm, ar.analysis_response,
                                   run.action[1]))

\* ------------------------------------------- the copies of the core logic
\* identify_event_id, _extract_keywords and _get_predefined_steps are written
\* three times: as methods of AlertAnalysisAgent (agent_), inside
\* tools/analysis/tool_factory.py (factory_) and in the standalone tool
\* modules, which the definitions identify_event_id, _extract_keywords and
\* _get_predefined_steps above follow.
\* identify_event_id(alarm_message, documentation) of AlertAnalysisAgent
agent_identify_event_id(alarm_message, documentation) ==
  LET alarm_lower == Lower(alarm_message)
  IN IF (Contains(alarm_lower, <<"c", "p", "u">>) /\ (Contains(alarm_lower, <<"h", "i", "g", "h">>) \/ Contains(alarm_lower, <<"9", "0">>) \/ Contains(alarm_lower, <<"9", "5">>)))
     THEN "SYS-001"
     ELSE IF (Contains(alarm_lower, <<"m", "e", "m", "o", "r", "y">>) /\ (Contains(alarm_lower, <<"c", "r", "i", "t", "i", "c", "a", "l">>) \/ Contains(alarm_lower, <<"e", "x", "h", "a", "u", "s", "t", "e", "d">>)))
     THEN "SYS-002"
     ELSE IF (Contains(alarm_lower, <<"c", "o", "n", "n", "e", "c", "t", "i", "o", "n">>) /\ (Contains(alarm_lower, <<"l", "i", "m", "i", "t">>) \/ Contains(alarm_lower, <<"m", "a", "x", "i", "m", "u", "m">>)))
     THEN "NET-001"
     ELSE IF (Contains(alarm_lower, <<"d", "i", "s", "k">>) /\ (Contains(alarm_lower, <<"s", "p", "a", "c", "e">>) \/ Contains(alarm_lower, <<"f", "u", "l", "l">>)))
     THEN "STO-001"
     ELSE IF ((Contains(alarm_lower, <<"s", "e", "r", "v", "i", "c", "e">>) \/ Contains(alarm_lower, <<"a", "p", "p", "l", "i", "c", "a", "t", "i", "o", "n">>)) /\ (Contains(alarm_lower, <<"d", "o", "w", "n">>) \/ Contains(alarm_lower, <<"f", "a", "i", "l", "e", "d">>) \/ Contains(alarm_lower, <<"u", "n", "a", "v", "a", "i", "l", "a", "b", "l", "e">>)))
     THEN "APP-001"
     ELSE IF (Contains(alarm_lower, <<"a", "u", "t", "h", "e", "n", "t", "i", "c", "a", "t", "i", "o", "n">>) \/ Contains(alarm_lower, <<"l", "o", "g", "i", "n">>))
     THEN "AUTH-001"
     ELSE IF (Contains(alarm_lower, <<"n", "e", "t", "w", "o", "r", "k">>) \/ Contains(alarm_lower, <<"t", "i", "m", "e", "o", "u", "t">>))
     THEN "NET-002"
     ELSE "ALERT-UNKNOWN"

\* The list alert_keywords of _extract_keywords of AlertAnalysisAgent.
agent_alert_keywords == <<
  <<"c", "p", "u">>,
  <<"m", "e", "m", "o", "r", "y">>,
  <<"d", "i", "s", "k">>,
  <<"c", "o", "n", "n", "e", "c", "t", "i", "o", "n">>,
  <<"r", "e", "p", "l", "i", "c", "a", "t", "i", "o", "n">>,
  <<"d", "e", "a", "d", "l", "o", "c", "k">>,
  <<"b", "a", "c", "k", "u", "p">>,
  <<"p", "e", "r", "f", "o", "r", "m", "a", "n", "c", "e">>,
  <<"q", "u", "e", "r", "y">>,
  <<"l", "o", "c", "k">>,
  <<"n", "e", "t", "w", "o", "r", "k">>,
  <<"a", "p", "p", "l", "i", "c", "a", "t", "i", "o", "n">>,
  <<"s", "e", "r", "v", "i", "c", "e">>,
  <<"s", "e", "r", "v", "e", "r">>,
  <<"s", "t", "o", "r", "a", "g", "e">>,
  <<"a", "u", "t", "h", "e", "n", "t", "i", "c", "a", "t", "i", "o", "n">>,
  <<"t", "i", "m", "e", "o", "u", "t">>
>>

\* _extract_keywords(alarm_message) of AlertAnalysisAgent
agent_extract_keywords(alarm_message) ==
  LET alarm_lower == Lower(alarm_message)
      keywords    == ScanKeywords(alarm_lower, agent_alert_keywords, 1)
      numbers     == FindNumbers(alarm_message, 1)
  IN keywords \o numbers

\* The dict literal alert_steps of _get_predefined_steps of AlertAnalysisAgent.
agent_alert_steps ==
  [e \in {"SYS-001", "SYS-002", "NET-001", "STO-001", "APP-001", "AUTH-001", "NET-002"} |->
     CASE e = "SYS-001" ->
            [event_name |-> "High CPU Usage",
             immediate_actions |-> <<"Check top processes consuming CPU", "Review system load averages", "Identify resource-intensive applications", "Consider scaling or load balancing">>,
             escalation |-> "If CPU remains high for >15 minutes, page on-call engineer",
             severity |-> "Critical"]
       [] e = "SYS-002" ->
            [event_name |-> "Memory Pressure",
             immediate_actions |-> <<"Review memory usage by processes", "Check for memory leaks in applications", "Clear unnecessary caches", "Monitor swap usage and consider restart">>,
             escalation |-> "Critical - immediate system admin involvement required",
             severity |-> "Critical"]
       [] e = "NET-001" ->
            [event_name |-> "Connection Limit Reached",
             immediate_actions |-> <<"Review active connections", "Check for connection leaks in applications", "Increase connection limits if appropriate", "Monitor connection pool usage">>,
             escalation |-> "If connections don't decrease within 10 minutes",
             severity |-> "Critical"]
       [] e = "STO-001" ->
            [event_name |-> "Disk Space Low",
             immediate_actions |-> <<"Identify largest files and directories", "Clean up temporary files and logs", "Archive old data if possible", "Consider adding storage capacity">>,
             escalation |-> "If disk usage >95%, immediate action required",
             severity |-> "High"]
       [] e = "APP-001" ->
            [event_name |-> "Service/Application Down",
             immediate_actions |-> <<"Check service status and logs", "Attempt service restart", "Verify dependencies are running", "Check for recent deployments or changes">>,
             escalation |-> "If service doesn't recover in 5 minutes, escalate",
             severity |-> "Critical"]
       [] e = "AUTH-001" ->
            [event_name |-> "Authentication Issues",
             immediate_actions |-> <<"Check authentication service status", "Review authentication logs", "Verify user credentials and permissions", "Check network connectivity to auth services">>,
             escalation |-> "If affecting multiple users, escalate immediately",
             severity |-> "High"]
       [] e = "NET-002" ->
            [event_name |-> "Network/Timeout Issues",
             immediate_actions |-> <<"Check network connectivity", "Review firewall and routing rules", "Test DNS resolution", "Monitor network latency and packet loss">>,
             escalation |-> "If affecting multiple services, escalate",
             severity |-> "High"]]

\* The default of alert_steps.get(event_id, ...) of AlertAnalysisAgent.
agent_default_steps ==
  [event_name |-> "Unknown Event",
   immediate_actions |-> <<"Review alarm details", "Check system logs">>,
   escalation |-> "Contact system admin team for analysis",
   severity |-> "Unknown"]

\* _get_predefined_steps(event_id) of AlertAnalysisAgent
agent_get_predefined_steps(event_id) ==
  IF event_id \in DOMAIN agent_alert_steps THEN agent_alert_steps[event_id]
  ELSE agent_default_steps

factory_identify_event_id_network_first(alarm_message, documentation) ==
  LET e == identify_event_id(alarm_message, documentation)
  IN IF e = "AUTH-001" /\ NetworkRule(Lower(alarm_message)) THEN "NET-002"
     ELSE e

\* identify_event_id(alarm_message, documentation) of tool_factory.py
factory_identify_event_id(alarm_message, documentation) ==
  LET alarm_lower == Lower(alarm_message)
  IN IF (Contains(alarm_lower, <<"c", "p", "u">>) /\ (Contains(alarm_lower, <<"h", "i", "g", "h">>) \/ Contains(alarm_lower, <<"9", "0">>) \/ Contains(alarm_lower, <<"9", "5">>)))
     THEN "SYS-001"
     ELSE IF (Contains(alarm_lower, <<"m", "e", "m", "o", "r", "y">>) /\ (Contains(alarm_lower, <<"c", "r", "i", "t", "i", "c", "a", "l">>) \/ Contains(alarm_lower, <<"e", "x", "h", "a", "u", "s", "t", "e", "d">>)))
     THEN "SYS-002"
     ELSE IF (Contains(alarm_lower, <<"c", "o", "n", "n", "e", "c", "t", "i", "o", "n">>) /\ (Contains(alarm_lower, <<"l", "i", "m", "i", "t">>) \/ Contains(alarm_lower, <<"m", "a", "x", "i", "m", "u", "m">>)))
     THEN "NET-001"
     ELSE IF (Contains(alarm_lower, <<"d", "i", "s", "k">>) /\ (Contains(alarm_lower, <<"s", "p", "a", "c", "e">>) \/ Contains(alarm_lower, <<"f", "u", "l", "l">>)))
     THEN "STO-001"
     ELSE IF ((Contains(alarm_lower, <<"s", "e", "r", "v", "i", "c", "e">>) \/ Contains(alarm_lower, <<"a", "p", "p", "l", "i", "c", "a", "t", "i", "o", "n">>)) /\ (Contains(alarm_lower, <<"d", "o", "w", "n">>) \/ Contains(alarm_lower, <<"f", "a", "i", "l", "e", "d">>) \/ Contains(alarm_lower, <<"u", "n", "a", "v", "a", "i", "l", "a", "b", "l", "e">>)))
     THEN "APP-001"
     ELSE IF (Contains(alarm_lower, <<"a", "u", "t", "h", "e", "n", "t", "i", "c", "a", "t", "i", "o", "n">>) \/ Contains(alarm_lower, <<"l", "o", "g", "i", "n">>))
     THEN "AUTH-001"
     ELSE IF (Contains(alarm_lower, <<"n", "e", "t", "w", "o", "r", "k">>) \/ Contains(alarm_lower, <<"t", "i", "m", "e", "o", "u", "t">>))
     THEN "NET-002"
     ELSE "ALERT-UNKNOWN"

\* The list alert_keywords of _extract_keywords of tool_factory.py.
factory_alert_keywords == <<
  <<"c", "p", "u">>,
  <<"m", "e", "m", "o", "r", "y">>,
  <<"d", "i", "s", "k">>,
  <<"c", "o", "n", "n", "e", "c", "t", "i", "o", "n">>,
  <<"r", "e", "p", "l", "i", "c", "a", "t", "i", "o", "n">>,
  <<"d", "e", "a", "d", "l", "o", "c", "k">>,
  <<"b", "a", "c", "k", "u", "p">>,
  <<"p", "e", "r", "f", "o", "r", "m", "a", "n", "c", "e">>,
  <<"q", "u", "e", "r", "y">>,
  <<"l", "o", "c", "k">>,
  <<"n", "e", "t", "w", "o", "r", "k">>,
  <<"a", "p", "p", "l", "i", "c", "a", "t", "i", "o", "n">>,
  <<"s", "e", "r", "v", "i", "c", "e">>,
  <<"s", "e", "r", "v", "e", "r">>,
  <<"s", "t", "o", "r", "a", "g", "e">>,
  <<"a", "u", "t", "h", "e", "n", "t", "i", "c", "a", "t", "i", "o", "n">>,
  <<"t", "i", "m", "e", "o", "u", "t">>
>>

\* _extract_keywords(alarm_message) of tool_factory.py
factory_extract_keywords(alarm_message) ==
  LET alarm_lower == Lower(alarm_message)
      keywords    == ScanKeywords(alarm_lower, factory_alert_keywords, 1)
      numbers     == FindNumbers(alarm_message, 1)
  IN keywords \o numbers

\* The dict literal alert_steps of _get_predefined_steps of tool_factory.py.
factory_alert_steps ==
  [e \in {"SYS-001", "SYS-002", "NET-001", "STO-001", "APP-001", "AUTH-001", "NET-002"} |->
     CASE e = "SYS-001" ->
            [event_name |-> "High CPU Usage",
             immediate_actions |-> <<"Check top processes consuming CPU", "Review system load averages", "Identify resource-intensive applications", "Consider scaling or load balancing">>,
             escalation |-> "If CPU remains high for >15 minutes, page on-call engineer",
             severity |-> "Critical"]
       [] e = "SYS-002" ->
            [event_name |-> "Memory Pressure",
             immediate_actions |-> <<"Review memory usage by processes", "Check for memory leaks in applications", "Clear unnecessary caches", "Monitor swap usage and consider restart">>,
             escalation |-> "Critical - immediate system admin involvement required",
             severity |-> "Critical"]
       [] e = "NET-001" ->
            [event_name |-> "Connection Limit Reached",
             immediate_actions |-> <<"Review active connections", "Check for connection leaks in applications", "Increase connection limits if appropriate", "Monitor connection pool usage">>,
             escalation |-> "If connections don't decrease within 10 minutes",
             severity |-> "Critical"]
       [] e = "STO-001" ->
            [event_name |-> "Disk Space Low",
             immediate_actions |-> <<"Identify largest files and directories", "Clean up temporary files and logs", "Archive old data if possible", "Consider adding storage capacity">>,
             escalation |-> "If disk usage >95%, immediate action required",
             severity |-> "High"]
       [] e = "APP-001" ->
            [event_name |-> "Service/Application Down",
             immediate_actions |-> <<"Check service status and logs", "Attempt service restart", "Verify dependencies are running", "Check for recent deployments or changes">>,
             escalation |-> "If service doesn't recover in 5 minutes, escalate",
             severity |-> "Critical"]
       [] e = "AUTH-001" ->
            [event_name |-> "Authentication Issues",
             immediate_actions |-> <<"Check authentication service status", "Review authentication logs", "Verify user credentials and permissions", "Check network connectivity to auth services">>,
             escalation |-> "If affecting multiple users, escalate immediately",
             severity |-> "High"]
       [] e = "NET-002" ->
            [event_name |-> "Network/Timeout Issues",
             immediate_actions |-> <<"Check network connectivity", "Review firewall and routing rules", "Test DNS resolution", "Monitor network latency and packet loss">>,
             escalation |-> "If affecting multiple services, escalate",
             severity |-> "High"]]

\* The default of alert_steps.get(event_id, ...) of tool_factory.py.
factory_default_steps ==
  [event_name |-> "Unknown Event",
   immediate_actions |-> <<"Review alarm details", "Check system logs">>,
   escalation |-> "Contact system admin team for analysis",
   severity |-> "Unknown"]

\* _get_predefined_steps(event_id) of tool_factory.py
factory_get_predefined_steps(event_id) ==
  IF event_id \in DOMAIN factory_alert_steps THEN factory_alert_steps[event_id]
  ELSE factory_default_steps

\* The three copies of identify_event_id are called with the same arguments.
CopiesIdentifyEventId ==
  /\ pc = "copies"
  /\ \E documentation \in OtherDocumentation :
       copies' =
         <<[op |-> "identify_event_id",
            agent |-> agent_identify_event_id(alarm, documentation),
            factory |-> factory_identify_event_id(alarm, documentation),
            module |-> identify_event_id(alarm, documentation)]>>
  /\ UNCHANGED <<pc, alarm, credentials, tools_cache, authenticated, runs,
                 cache_writes, session>>
  /\ UNCHANGED toolVars
  /\ UNCHANGED pipelineVars

\* The three copies of _extract_keywords are called with the same text.
CopiesExtractKeywords ==
  /\ pc = "copies"
  /\ copies' =
       <<[op |-> "_extract_keywords",
          agent |-> agent_extract_keywords(alarm),
          factory |-> factory_extract_keywords(alarm),
          module |-> _extract_keywords(alarm)]>>
  /\ UNCHANGED <<pc, alarm, credentials, tools_cache, authenticated, runs,
                 cache_writes, session>>
  /\ UNCHANGED toolVars
  /\ UNCHANGED pipelineVars

\* The three copies of _get_predefined_steps are called with the same
\* identifier.
CopiesGetPredefinedSteps ==
  /\ pc = "copies"
  /\ \E event_id \in EventIds \cup OtherEventIds :
       copies' =
         <<[op |-> "_get_predefined_steps",
            event_id |-> event_id,
            agent |-> agent_get_predefined_steps(event_id),
            factory |-> factory_get_predefined_steps(event_id),
            module |-> _get_predefined_steps(event_id)]>>
  /\ UNCHANGED <<pc, alarm, credentials, tools_cache, authenticated, runs,
                 cache_writes, session>>
  /\ UNCHANGED toolVars
  /\ UNCHANGED pipelineVars

InitCopies ==
  /\ pc = "copies"
  /\ alarm \in Texts
  /\ credentials = FALSE
  /\ InitCommon

NextCopies ==
  \/ CopiesIdentifyEventId
  \/ CopiesExtractKeywords
  \/ CopiesGetPredefinedSteps

SpecCopies == InitCopies /\ [][NextCopies]_vars

\* ------------------------------------------------ the entry points of main.py
\* The most lines one interactive session reads.
MaxInputs == 2

\* The characters str.strip() removes that occur in the modelled input.
Whitespace == {" ", "\t"}

RECURSIVE LStrip(_)
LStrip(s) ==
  IF s # << >> /\ Head(s) \in Whitespace THEN LStrip(Tail(s)) ELSE s

RECURSIVE RStrip(_)
RStrip(s) ==
  IF s # << >> /\ s[Len(s)] \in Whitespace
  THEN RStrip(SubSeq(s, 1, Len(s) - 1))
  ELSE s

\* str.strip()
Strip(s) == RStrip(LStrip(s))

\* ["quit", "exit", "q"]
QuitWords ==
  {<<"q", "u", "i", "t">>, <<"e", "x", "i", "t">>, <<"q">>}

\* The lines input() returns in the modelled sessions.
InputLines ==
  {<< >>,
   <<" ", "\t">>,
   <<"q">>,
   <<" ", "Q", "U", "I", "T", " ">>,
   <<"E", "x", "i", "t">>,
   <<"q", "u", "i", "e", "t">>,
   <<"C", "P", "U", " ", "H", "i", "g", "h">>,
   <<" ", "t", "i", "m", "e", "o", "u", "t", " ">>}

\* AtlassianMCPClient.authenticate(): True when create_server_params()
\* returned, False when it raised.
client_authenticate(creds) == create_server_params_ok(creds)

\* AIAlertAssistant.authenticate() of main.py: what the client's
\* authenticate() returned.
main_authenticate(creds) == client_authenticate(creds)

\* AIAlertAssistant.analyze_alert(alert_message) of main.py
main_analyze_alert(agent_set, alert_message, outcome) ==
  IF ~agent_set
  THEN [error |-> "Analysis agent not available", status |-> "error"]
  ELSE agent_analyze_alert(alert_message, outcome)

after_authenticate_ungated(mode, b) ==
  IF mode = "batch" THEN "analyzing" ELSE "prompt"

\* Where batch_mode and interactive_mode go once authenticate() has
\* returned b: both return when it is false; batch_mode calls analyze_alert
\* and interactive_mode prompts for the first alert otherwise.
after_authenticate(mode, b) ==
  IF ~b THEN "ended"
  ELSE IF mode = "batch" THEN "analyzing"
  ELSE "prompt"

after_input_case_sensitive(alert_message) ==
  IF alert_message \in QuitWords THEN "ended"
  ELSE IF alert_message = << >> THEN "prompt"
  ELSE "analyzing"

\* Where the loop of interactive_mode goes with the stripped line: it
\* breaks on a quit word, prompts again on the empty text and calls
\* analyze_alert otherwise.
after_input(alert_message) ==
  IF Lower(alert_message) \in QuitWords THEN "ended"
  ELSE IF alert_message = << >> THEN "prompt"
  ELSE "analyzing"

\* batch_mode(alert_message) and interactive_mode() up to the answer of
\* authenticate().
MainAuthenticate ==
  /\ pc \in {"batch", "interactive"}
  /\ LET b == main_authenticate(credentials)
         next == after_authenticate(pc, b)
     IN /\ authenticated' = <<b>>
        /\ pc' = next
        /\ session' =
             [session EXCEPT
                !.mode = pc,
                !.analyses = IF next = "analyzing" THEN @ + 1 ELSE @,
                !.ended_by = IF next = "ended" THEN "authentication" ELSE @]
  /\ UNCHANGED <<alarm, credentials, tools_cache, runs, cache_writes, copies>>
  /\ UNCHANGED toolVars
  /\ UNCHANGED pipelineVars

\* One pass of the loop of interactive_mode from the prompt to the break,
\* the continue or the call of analyze_alert.
ReadInput ==
  /\ pc = "prompt"
  /\ session.inputs < MaxInputs
  /\ \E line \in InputLines :
       LET alert_message == Strip(line)
           next == after_input(alert_message)
       IN /\ pc' = next
          /\ alarm' = IF next = "analyzing" THEN alert_message ELSE alarm
          /\ session' =
               [session EXCEPT
                  !.inputs = @ + 1,
                  !.line = <<line>>,
                  !.analyses = IF next = "analyzing" THEN @ + 1 ELSE @,
                  !.ended_by = IF next = "ended" THEN "quit" ELSE @]
  /\ UNCHANGED <<credentials, tools_cache, authenticated, runs, cache_writes,
                 copies>>
  /\ UNCHANGED toolVars
  /\ UNCHANGED pipelineVars

\* input() raises an exception other than KeyboardInterrupt (EOFError): the
\* except branch logs it and the loop continues.
InputFails ==
  /\ pc = "prompt"
  /\ session.inputs < MaxInputs
  /\ session' = [session EXCEPT !.inputs = @ + 1, !.line = << >>]
  /\ UNCHANGED <<pc, alarm, credentials, tools_cache, authenticated, runs,
                 cache_writes, copies>>
  /\ UNCHANGED toolVars
  /\ UNCHANGED pipelineVars

\* analyze_alert returns to batch_mode or to the loop of interactive_mode:
\* the analysis is printed when the status is "success" and the error is
\* logged otherwise.  Printing may raise; the loop logs the exception and
\* continues, batch_mode lets it reach main().
AnalysisReturns ==
  /\ pc = "analyzing"
  /\ \E o \in {Returned(r) : r \in AnalysisResponses}
                \cup {Raised(e) : e \in Errors},
        print_raises \in BOOLEAN :
       LET r == main_analyze_alert(analysis_agent, alarm, o)
           shown == r.status = "success" /\ ~print_raises
       IN /\ r.status = "success" \/ ~print_raises
          /\ pc' = IF session.mode = "batch" THEN "ended" ELSE "prompt"
          /\ session' =
               [session EXCEPT
                  !.status = <<r.status>>,
                  !.printed = IF shown THEN @ + 1 ELSE @,
                  !.ended_by = IF session.mode # "batch" THEN @
                               ELSE IF print_raises THEN "exception"
                               ELSE "returned"]
  /\ UNCHANGED <<alarm, credentials, tools_cache, authenticated, runs,
                 cache_writes, copies>>
  /\ UNCHANGED toolVars
  /\ UNCHANGED pipelineVars

\* Ctrl-C at the prompt or during the analysis of interactive_mode: the
\* except KeyboardInterrupt branch breaks the loop.
KeyboardInterrupt ==
  /\ pc \in {"prompt", "analyzing"}
  /\ session.mode = "interactive"
  /\ pc' = "ended"
  /\ session' = [session EXCEPT !.ended_by = "KeyboardInterrupt"]
  /\ UNCHANGED <<alarm, credentials, tools_cache, authenticated, runs,
                 cache_writes, copies>>
  /\ UNCHANGED toolVars
  /\ UNCHANGED pipelineVars

\* A run of one entry point: process_alert of interfaces/cli.py ("cli"),
\* or main() of main.py, which runs batch_mode when it was given a
\* non-empty alert and interactive_mode otherwise.
InitMain ==
  /\ pc \in {"cli", "batch", "interactive"}
  /\ alarm \in IF pc = "cli" THEN AlertTexts
               ELSE IF pc = "batch" THEN AlertTexts \ {<< >>}
               ELSE {<< >>}
  /\ credentials \in BOOLEAN
  /\ InitCommon

NextMain ==
  \/ ProcessAlert
  \/ MainAuthenticate
  \/ ReadInput
  \/ InputFails
  \/ AnalysisReturns
  \/ KeyboardInterrupt

SpecMain == InitMain /\ [][NextMain]_vars

\* ================================================================ properties
\* The rules in the order the specification lists them.
RuleOrder ==
  <<"SYS-001", "SYS-002", "NET-001", "STO-001", "APP-001", "AUTH-001",
    "NET-002">>

\* The predicate of the rule that yields identifier id, on lower-cased text l.
RuleHolds(id, l) ==
  CASE id = "SYS-001" -> CpuRule(l)
    [] id = "SYS-002" -> MemoryRule(l)
    [] id = "NET-001" -> ConnectionRule(l)
    [] id = "STO-001" -> DiskRule(l)
    [] id = "APP-001" -> ServiceRule(l)
    [] id = "AUTH-001" -> AuthRule(l)
    [] id = "NET-002" -> NetworkRule(l)

\* C1: the identifier returned for an alarm text is that of the first rule,
\* in the order CPU, memory, connection, disk, service, authentication,
\* network, whose predicate holds on the lower-cased text; a text that
\* satisfies both the CPU and the memory rule is SYS-001, never SYS-002.
C1_FirstMatchWins ==
  last_event_id # << >> =>
    LET l == Lower(alarm)
    IN /\ \A i \in 1..Len(RuleOrder) :
            (/\ RuleHolds(RuleOrder[i], l)
             /\ \A j \in 1..(i - 1) : ~RuleHolds(RuleOrder[j], l))
            => last_event_id[1] = RuleOrder[i]
       /\ (CpuRule(l) /\ MemoryRule(l)) =>
            (last_event_id[1] = "SYS-001" /\ last_event_id[1] # "SYS-002")

\* A text satisfying the CPU and the memory rule has been classified.
C1_Witness ==
  /\ pc = "tools"
  /\ last_event_id = <<"SYS-001">>
  /\ CpuRule(Lower(alarm))
  /\ MemoryRule(Lower(alarm))

\* C2: every call of identify_event_id returns one value of the closed set
\* of eight identifiers, and every call on the same text returns the
\* identifier the first call returned, whatever documentation is passed.
C2_ClosedSetDeterministic ==
  last_event_id # << >> =>
    /\ last_event_id[1] \in EventIds
    /\ first_event_id # << >>
    /\ last_event_id[1] = first_event_id[1]

\* A text has been classified, after a documentation search that returned
\* an error.
C2_Witness ==
  /\ pc = "tools"
  /\ last_event_id # << >>
  /\ doc_result # << >>
  /\ search_outcome[1].status = "error"

\* C3: a text that contains "cpu" and "high" in any letter case is
\* classified SYS-001 whatever else it contains, and the record looked up
\* for SYS-001 has severity "Critical".
C3_CpuHigh ==
  LET l == Lower(alarm)
      cpuHigh == /\ Contains(l, <<"c", "p", "u">>)
                 /\ Contains(l, <<"h", "i", "g", "h">>)
  IN /\ (last_event_id # << >> /\ cpuHigh) => last_event_id[1] = "SYS-001"
     /\ (steps # << >> /\ steps[1].event_id = "SYS-001") =>
          steps[1].record.severity = "Critical"

\* An upper-case "CPU High" text that also satisfies the memory rule has
\* been classified and its record looked up.
C3_Witness ==
  /\ pc = "tools"
  /\ Contains(alarm, <<"C", "P", "U", " ", "H", "i", "g", "h">>)
  /\ MemoryRule(Lower(alarm))
  /\ last_event_id = <<"SYS-001">>
  /\ steps # << >>
  /\ steps[1].event_id = "SYS-001"

\* C4: a text on which none of the seven rules holds is classified
\* ALERT-UNKNOWN, and the lookup of ALERT-UNKNOWN returns the default record
\* (event name "Unknown Event", severity "Unknown").
C4_UnknownDefault ==
  LET l == Lower(alarm)
  IN /\ (last_event_id # << >> /\ \A i \in 1..Len(RuleOrder) :
                               ~RuleHolds(RuleOrder[i], l))
          => last_event_id[1] = "ALERT-UNKNOWN"
     /\ (steps # << >> /\ steps[1].event_id = "ALERT-UNKNOWN") =>
          /\ steps[1].record.event_name = "Unknown Event"
          /\ steps[1].record.severity = "Unknown"

\* A non-empty text matching no rule has been classified and the record of
\* the identifier returned has been looked up.
C4_Witness ==
  /\ pc = "tools"
  /\ Len(alarm) > 0
  /\ \A i \in 1..Len(RuleOrder) : ~RuleHolds(RuleOrder[i], Lower(alarm))
  /\ last_event_id = <<"ALERT-UNKNOWN">>
  /\ steps # << >>
  /\ steps[1].event_id = "ALERT-UNKNOWN"

\* The seven keys of the remediation table.
TableKeys ==
  {"SYS-001", "SYS-002", "NET-001", "STO-001", "APP-001", "AUTH-001",
   "NET-002"}

\* C5: get_troubleshooting_steps returns a remediation record for every
\* identifier string: the table entry of a table key, and for any other
\* string the default record named "Unknown Event" with severity "Unknown".
C5_LookupTotal ==
  steps # << >> =>
    LET e == steps[1].event_id
        r == steps[1].record
    IN /\ DOMAIN r = {"event_name", "immediate_actions", "escalation",
                      "severity"}
       /\ e \in TableKeys => (r = alert_steps[e] /\ r.severity # "Unknown")
       /\ e \notin TableKeys =>
            /\ r.event_name = "Unknown Event"
            /\ r.severity = "Unknown"
            /\ r = default_steps

\* An identifier that is no table key and is not the sentinel either has
\* been looked up.
C5_Witness ==
  /\ steps # << >>
  /\ steps[1].event_id \notin TableKeys \cup {"ALERT-UNKNOWN"}
  /\ steps[1].record.severity = "Unknown"

C7_SearchFailureFallsBack ==
  (doc_result # << >> /\ search_outcome[1].cause # "none") =>
    /\ doc_result[1].documentation_found = FALSE
    /\ doc_result[1].fallback_used = TRUE
    /\ doc_result[1].keywords = _extract_keywords(alarm)
    /\ pc = "analysis" =>
         (ENABLED IdentifyEventId /\ ENABLED GetTroubleshootingSteps)

\* The search tool was missing from the listed tools, the alarm text had
\* keywords, and the text was classified and its record looked up.
C7_Witness ==
  /\ pc = "analysis"
  /\ doc_result # << >>
  /\ search_outcome[1].cause = "tool_missing"
  /\ Len(doc_result[1].keywords) > 0
  /\ last_event_id # << >>
  /\ steps # << >>

C9_ActionFailureFallsBack ==
  (/\ result # << >>
   /\ analysis_outcome # << >> /\ ~analysis_outcome[1].raised
   /\ action_outcome # << >> /\ action_outcome[1].raised)
    => /\ result[1] = analysis_result[1]
       /\ result[1].status = "success"
       /\ result[1].analysis_response = analysis_outcome[1].value
       /\ result[1].alert_message = alarm
       /\ "error" \notin DOMAIN result[1]

\* The analysis succeeded, the frontline agent raised, and the pipeline has
\* returned.
C9_Witness ==
  /\ pc = "done"
  /\ analysis_outcome # << >> /\ ~analysis_outcome[1].raised
  /\ action_outcome # << >> /\ action_outcome[1].raised
  /\ response_result[1].status = "error"
  /\ result # << >>

\* C10: when the agent run of the analysis stage raises, the pipeline ends
\* with status error and the exception's message in error, without calling
\* the frontline agent; and with both agents set, a result of status error
\* comes from no other path.
C10_AnalysisFailureIsTerminal ==
  /\ (analysis_outcome # << >> /\ analysis_outcome[1].raised) =>
       /\ pc = "done"
       /\ result # << >>
       /\ result[1].status = "error"
       /\ result[1].error = analysis_outcome[1].error
       /\ action_outcome = << >>
  /\ (result # << >> /\ result[1].status = "error"
        /\ analysis_agent /\ frontline_response) =>
       (analysis_outcome # << >> /\ analysis_outcome[1].raised)

\* The agent run of the analysis raised after tools had been called, and
\* the pipeline has returned the error.
C10_Witness ==
  /\ pc = "done"
  /\ analysis_outcome # << >> /\ analysis_outcome[1].raised
  /\ last_event_id # << >>
  /\ result # << >>
  /\ result[1].status = "error"

\* C11: analyze_alert always returns a result to its caller: a run that has
\* ended has a result, the result's status is "success" or "error", a
\* success result carries analysis_response and an error result carries
\* error, whatever the analysis stage and the action stage did.
C11_StructuredResult ==
  /\ (pc = "done") <=> (result # << >>)
  /\ result # << >> =>
       /\ "status" \in DOMAIN result[1]
       /\ result[1].status \in {"success", "error"}
       /\ result[1].status = "success" =>
            "analysis_response" \in DOMAIN result[1]
       /\ result[1].status = "error" => "error" \in DOMAIN result[1]

\* A run whose analysis and action stages both returned has ended with a
\* success result after a documentation search.
C11_Witness ==
  /\ pc = "done"
  /\ doc_result # << >>
  /\ action_outcome # << >> /\ ~action_outcome[1].raised
  /\ result[1].status = "success"
  /\ "analysis_response" \in DOMAIN result[1]

\* C12: every run passes through the stages in the fixed order: the
\* documentation search comes before the classification, the classification
\* before the remediation lookup, the lookup before the action dispatch; a
\* run that ends with success has performed all of them, and a run that has
\* ended has status success or error.
C12_FixedStageOrder ==
  /\ last_event_id # << >> => doc_result # << >>
  /\ steps # << >> => last_event_id # << >>
  /\ (pc \in {"action", "done"} /\ analysis_result # << >>
        /\ analysis_result[1].status = "success") =>
       (doc_result # << >> /\ last_event_id # << >> /\ steps # << >>)
  /\ pc = "done" => result[1].status \in {"success", "error"}

\* C12 as the code has it: a run begins when analyze_alert is called, by
\* process_alert only after authenticate; it moves from Received to the
\* analysis stage, from there to the action stage or to its end, and from
\* the action stage to its end; the search, the classification and the lookup are tool calls
\* made during the analysis stage only, in any order and number; the action
\* stage is entered only after an analysis of status success; and a run
\* that ends has status success, after the action stage, or status error.
C12_StageOrder ==
  [][/\ pc' # pc =>
          <<pc, pc'>> \in {<<"cli", "idle">>, <<"cli", "returned">>,
                           <<"idle", "analysis">>, <<"idle", "done">>,
                           <<"analysis", "action">>, <<"analysis", "done">>,
                           <<"action", "done">>}
     /\ toolVars' # toolVars => (pc = "analysis" /\ pc' = "analysis")
     /\ (pc' = "action" /\ pc # "action") =>
          analysis_result'[1].status = "success"
     /\ (pc' = "done" /\ pc # "done") =>
          /\ result' # << >>
          /\ result'[1].status \in {"success", "error"}
          /\ result'[1].status = "success" =>
               (pc = "action" /\ action_outcome' # << >>)
          /\ result'[1].status = "error" => action_outcome' = << >>]_vars

\* A run has ended with success although the text was classified without a
\* documentation search and no remediation record was looked up.
C12_Witness ==
  /\ pc = "done"
  /\ result[1].status = "success"
  /\ doc_result = << >>
  /\ last_event_id # << >>
  /\ steps = << >>

\* The positions of text s where a maximal run of digits starts.
DigitRunStarts(s) ==
  {i \in 1..Len(s) : s[i] \in Digits /\ (i = 1 \/ s[i - 1] \notin Digits)}

\* The numeric token of text s that starts at position i: the maximal run
\* of digits from i and the percent sign directly after it, if there is one.
NumericTokenAt(s, i) ==
  LET e == CHOOSE e \in i..Len(s) :
             /\ \A j \in i..e : s[j] \in Digits
             /\ (e = Len(s) \/ s[e + 1] \notin Digits)
  IN IF e < Len(s) /\ s[e + 1] = "%" THEN SubSeq(s, i, e + 1)
     ELSE SubSeq(s, i, e)

\* C13: the keywords extracted from an alarm text are first the vocabulary
\* words contained in the lower-cased text, each once and in vocabulary
\* order, then the numeric tokens of the original text, one per maximal
\* digit run with its percent sign, from left to right; the empty text
\* gives no keywords.
C13_KeywordsShape ==
  doc_result # << >> =>
    LET kws    == doc_result[1].keywords
        hits   == {i \in 1..Len(alert_keywords) :
                     Contains(Lower(alarm), alert_keywords[i])}
        n      == Cardinality(hits)
        starts == DigitRunStarts(alarm)
        m      == Cardinality(starts)
    IN /\ Len(kws) = n + m
       /\ \A k \in 1..n :
            \E i \in hits :
              /\ Cardinality({j \in hits : j < i}) = k - 1
              /\ kws[k] = alert_keywords[i]
       /\ \A k \in 1..m :
            \E i \in starts :
              /\ Cardinality({j \in starts : j < i}) = k - 1
              /\ kws[n + k] = NumericTokenAt(alarm, i)
       /\ alarm = << >> => kws = << >>

\* The text "disk fullCPU High" was searched: its keywords are cpu, disk in
\* vocabulary order although disk comes first in the message.
C13_Witness ==
  /\ doc_result # << >>
  /\ Len(alarm) > 0 /\ alarm[1] = "d"
  /\ doc_result[1].keywords = <<<<"c", "p", "u">>, <<"d", "i", "s", "k">>>>

\* The position in " ".join(words) where word k starts.
RECURSIVE QueryOffset(_, _)
QueryOffset(words, k) ==
  IF k = 1 THEN 1 ELSE QueryOffset(words, k - 1) + Len(words[k - 1]) + 1

\* C14: the query the adapter received is the extracted keywords in their
\* order, each in full, with one space between neighbours and nothing else:
\* a token extracted several times is in the query that many times, and no
\* keywords give the empty query.
C14_QueryIsJoinedKeywords ==
  (/\ doc_result # << >>
   /\ "search_results" \in DOMAIN doc_result[1]
   /\ "query" \in DOMAIN doc_result[1].search_results) =>
    LET kws == doc_result[1].keywords
        q   == doc_result[1].search_results.query
        n   == Len(kws)
    IN /\ n = 0 => q = << >>
       /\ n > 0 => Len(q) = QueryOffset(kws, n) + Len(kws[n]) - 1
       /\ \A k \in 1..n :
            SubSeq(q, QueryOffset(kws, k),
                   QueryOffset(kws, k) + Len(kws[k]) - 1) = kws[k]
       /\ \A k \in 2..n : q[QueryOffset(kws, k) - 1] = " "
       /\ Len(SelectSeq(q, LAMBDA c : c = " ")) =
            (IF n = 0 THEN 0 ELSE n - 1)

\* The text "u 95% 7u 95% 7" was searched: the token 95% is twice among the
\* keywords and twice in the query "95% 7 95% 7".
C14_Witness ==
  /\ doc_result # << >>
  /\ "search_results" \in DOMAIN doc_result[1]
  /\ "query" \in DOMAIN doc_result[1].search_results
  /\ doc_result[1].keywords =
       <<<<"9", "5", "%">>, <<"7">>, <<"9", "5", "%">>, <<"7">>>>
  /\ doc_result[1].search_results.query =
       <<"9", "5", "%", " ", "7", " ", "9", "5", "%", " ", "7">>

\* Documentation values of the four kinds, as a search of the empty text
\* builds them: the result with documentation found, the fallback result,
\* the result of the except branch, and the empty dict.
DocumentationValues ==
  {search_alarm_documentation(<< >>, << >>,
     Returned([status |-> "success", query |-> << >>,
               results |-> "content"])),
   search_alarm_documentation(<< >>, << >>,
     Returned(tool_not_available(<< >>))),
   search_alarm_documentation(<< >>, << >>, Raised("ConnectionError")),
   [empty |-> TRUE]}

\* C15: the identifier a call of identify_event_id returned for an alarm
\* text is the identifier the function returns for that text with every
\* documentation value, found, fallback, error or empty, so that every two
\* documentation values give the same identifier.
C15_DocumentationIgnored ==
  last_event_id # << >> =>
    \A d \in DocumentationValues :
      identify_event_id(alarm, d) = last_event_id[1]

\* A text that a rule matches has been classified after a search that found
\* documentation.
C15_Witness ==
  /\ last_event_id # << >>
  /\ last_event_id[1] # "ALERT-UNKNOWN"
  /\ doc_result # << >>
  /\ doc_result[1].documentation_found = TRUE

\* C18: when search_confluence_content has run, it has returned a dict whose
\* status is "success" or "partial_success", never "error"; the status is
\* "success", with the results, exactly when the listing did not fail, the
\* search tool was among the tools and the call completed; and the fallback
\* flag is set exactly when the status is "partial_success".
C18_SearchNeverErrors ==
  (doc_result # << >> /\ search_outcome[1].cause # "run_raised") =>
    /\ "search_results" \in DOMAIN doc_result[1]
    /\ LET sr == doc_result[1].search_results
       IN /\ sr.status \in {"success", "partial_success"}
          /\ (sr.status = "success") <=> (search_outcome[1].cause = "none")
          /\ sr.status = "success" => "results" \in DOMAIN sr
          /\ (Get(sr, "fallback", FALSE) = TRUE)
               <=> (sr.status = "partial_success")
          /\ search_outcome[1].cause
               \in {"listing_failed", "tool_missing", "call_raised"}
               => (sr.status = "partial_success" /\ sr.fallback = TRUE)

\* The search tool was listed and its call raised: the search returned
\* partial_success with the fallback flag.
C18_Witness ==
  /\ doc_result # << >>
  /\ search_outcome[1].cause = "call_raised"
  /\ doc_result[1].search_results.status = "partial_success"
  /\ doc_result[1].search_results.fallback = TRUE

\* C19: in a run the analysis agent is invoked exactly once and the
\* frontline agent at most once; the frontline agent is invoked exactly when
\* the analysis returned status success, and then with the alert text of
\* the run and the analysis_response of that analysis; when the analysis
\* fails the frontline agent is not invoked.
C19_AgentInvocations ==
  /\ pc \in {"analysis", "action", "done"} => calls.analysis = 1
  /\ pc = "idle" => calls.analysis = 0
  /\ calls.frontline \in {0, 1}
  /\ (calls.frontline = 1) <=>
       (analysis_result # << >> /\ analysis_result[1].status = "success")
  /\ response_result # << >> =>
       /\ calls.frontline = 1
       /\ response_result[1].alarm_text = alarm
       /\ response_result[1].analysis = analysis_result[1].analysis_response
       /\ response_result[1].analysis = analysis_outcome[1].value
  /\ (analysis_outcome # << >> /\ analysis_outcome[1].raised) =>
       (calls.frontline = 0 /\ response_result = << >>)

\* The analysis of a non-empty alert returned, and the frontline agent was
\* invoked once and has answered.
C19_Witness ==
  /\ pc = "done"
  /\ Len(alarm) > 0
  /\ calls = [analysis |-> 1, frontline |-> 1]
  /\ response_result # << >>
  /\ response_result[1].alarm_text = alarm

\* C20: when the agent runs of both stages returned, the result of
\* analyze_alert has exactly the keys alert_message, analysis_response and
\* status, with the input alarm text, the frontline agent's response and
\* "success"; the analysis agent's response is not in it.
C20_SuccessResult ==
  (/\ analysis_outcome # << >> /\ ~analysis_outcome[1].raised
   /\ action_outcome # << >> /\ ~action_outcome[1].raised) =>
    /\ result # << >>
    /\ DOMAIN result[1] = {"alert_message", "analysis_response", "status"}
    /\ result[1].alert_message = alarm
    /\ result[1].analysis_response = action_outcome[1].value
    /\ result[1].analysis_response = response_result[1].response
    /\ result[1].analysis_response # analysis_outcome[1].value
    /\ result[1].status = "success"

\* Both agent runs returned for a non-empty alert and the run has ended.
C20_Witness ==
  /\ pc = "done"
  /\ Len(alarm) > 0
  /\ analysis_outcome # << >> /\ ~analysis_outcome[1].raised
  /\ action_outcome # << >> /\ ~action_outcome[1].raised
  /\ result[1].analysis_response \in FrontlineResponses

\* C17: what authenticate returned is True when the URL, the user name and
\* the API token are all set, and False when they are not.
C17_AuthenticateReflectsConfiguration ==
  authenticated # << >> => (authenticated[1] = credentials)

\* C16: under every interleaving of two invocations, the documentation
\* result and the final result of each invocation are what it would produce
\* when run alone.
C16_InvocationsIndependent ==
  \A r \in Runs :
    /\ runs[r].doc # << >> => runs[r].doc[1] = AloneDoc(runs[r])
    /\ runs[r].result # << >> => runs[r].result[1] = AloneResult(runs[r])

\* C16 as the code has it: the invocations share the client's tool cache.
\* The final result of each invocation, and the alarm text and the keywords
\* of its documentation result, are what it would produce when run alone;
\* the rest of its documentation result differs from the run-alone result
\* only when the other invocation has written the tool cache.
C16_SharedToolCache ==
  \A r \in Runs :
    /\ runs[r].doc # << >> =>
         /\ runs[r].doc[1].alarm_message = ConcAlarm(r)
         /\ runs[r].doc[1].keywords = AloneDoc(runs[r]).keywords
         /\ runs[r].doc[1] # AloneDoc(runs[r]) =>
              cache_writes \ {r} # {}
    /\ runs[r].result # << >> =>
         /\ runs[r].result[1] = AloneResult(runs[r])
         /\ runs[r].result[1].alert_message = ConcAlarm(r)

\* Invocation 1 has ended; its search found no search tool although the
\* server listed the tool for it and would have answered its call, because
\* invocation 2 had emptied the cache in between.
C16_Witness ==
  /\ runs[1].pc = "done"
  /\ runs[1].doc # << >>
  /\ runs[1].doc[1].documentation_found = FALSE
  /\ AloneDoc(runs[1]).documentation_found = TRUE
  /\ runs[1].env[1].list_ok
  /\ runs[1].tools = {}
  /\ cache_writes = {1, 2}
  /\ runs[1].result[1] = AloneResult(runs[1])

\* C21: in every entry point (process_alert of the command line interface,
\* batch_mode and interactive_mode of main.py) analyze_alert is invoked,
\* and an analysis is printed, only after authenticate() returned True in
\* the same run; once authenticate() has returned False the run has ended,
\* analyze_alert was not invoked and no analysis was printed.
C21_AuthenticationGate ==
  /\ (\/ session.analyses > 0
      \/ session.printed > 0
      \/ calls.analysis > 0
      \/ result # << >>
      \/ pc \in {"prompt", "analyzing", "idle", "analysis", "action", "done"})
       => authenticated = <<TRUE>>
  /\ authenticated = <<FALSE>>
       => /\ pc \in {"ended", "returned"}
          /\ session.analyses = 0
          /\ session.printed = 0
          /\ calls.analysis = 0
          /\ result = << >>

\* batch_mode authenticated, called analyze_alert and printed the analysis.
C21_Witness ==
  /\ session.mode = "batch"
  /\ authenticated = <<TRUE>>
  /\ session.analyses = 1
  /\ session.printed = 1
  /\ pc = "ended"

\* Line l is word w, in any case, between leading and trailing whitespace.
TrimmedEquals(l, w) ==
  \E i \in 1..(Len(l) + 1) :
     LET j == i + Len(w) - 1
     IN /\ j <= Len(l)
        /\ Lower(SubSeq(l, i, j)) = w
        /\ \A k \in 1..Len(l) : (k < i \/ k > j) => l[k] \in Whitespace

\* C22: an authenticated interactive session ends only on a line that is
\* quit, exit or q after trimming, in any case, or on a keyboard interrupt;
\* when analyze_alert returns (with status success or error, or an
\* exception is raised while its result is handled) the session is at the
\* prompt again; and the text passed to analyze_alert is never empty and
\* never a quit word.
C22_SessionLoop ==
  [][session.mode = "interactive" =>
       /\ pc' = "ended" /\ pc # "ended"
            => \/ session'.ended_by = "KeyboardInterrupt"
               \/ /\ session'.ended_by = "quit"
                  /\ session'.line # << >>
                  /\ \E w \in QuitWords : TrimmedEquals(session'.line[1], w)
       /\ pc = "analyzing" /\ session'.ended_by # "KeyboardInterrupt"
            => pc' = "prompt"
       /\ session'.analyses > session.analyses
            => /\ alarm' # << >>
               /\ Lower(alarm') \notin QuitWords
               /\ \A w \in QuitWords \cup {<< >>} :
                     ~TrimmedEquals(session'.line[1], w)]_vars

\* A session went on after an analysis with status error and ended on the
\* line " QUIT ".
C22_Witness ==
  /\ session.mode = "interactive"
  /\ session.status = <<"error">>
  /\ session.ended_by = "quit"
  /\ session.line = <<<<" ", "Q", "U", "I", "T", " ">>>>
  /\ pc = "ended"

\* C23: the three copies of identify_event_id, of _extract_keywords and of
\* _get_predefined_steps (AlertAnalysisAgent, tool_factory.py, the
\* standalone tool modules) return equal results for equal arguments.
C23_CopiesAgree ==
  copies # << >>
    => /\ copies[1].agent = copies[1].module
       /\ copies[1].factory = copies[1].module

\* The three copies answered for a text that meets the authentication rule
\* and the network rule.
C23_Witness ==
  /\ copies # << >>
  /\ copies[1].op = "identify_event_id"
  /\ copies[1].factory = "AUTH-001"
  /\ NetworkRule(Lower(alarm))

\* C24: the classifier and the remediation table are consistent: an
\* identifier identify_event_id returned, other than ALERT-UNKNOWN, is a key
\* of the table and its entry has severity "Critical" or "High"; every key
\* of the table is returned by the classifier for some alarm text; and the
\* lookup of the identifier the classifier returned yields the default
\* record, of severity "Unknown", exactly when that identifier is
\* ALERT-UNKNOWN.
C24_ClassifierMatchesTable ==
  /\ (last_event_id # << >> /\ last_event_id[1] # "ALERT-UNKNOWN")
       => /\ last_event_id[1] \in DOMAIN alert_steps
          /\ alert_steps[last_event_id[1]].severity \in {"Critical", "High"}
  /\ \A k \in DOMAIN alert_steps :
        \E t \in Fragments : identify_event_id(t, [empty |-> TRUE]) = k
  /\ (last_event_id # << >> /\ steps # << >>
        /\ steps[1].event_id = last_event_id[1])
       => /\ (steps[1].record = default_steps)
               <=> (last_event_id[1] = "ALERT-UNKNOWN")
          /\ (steps[1].record.severity = "Unknown")
               <=> (last_event_id[1] = "ALERT-UNKNOWN")

\* The classifier answered NET-002 and the lookup of that identifier
\* returned the table entry of severity "High".
C24_Witness ==
  /\ last_event_id = <<"NET-002">>
  /\ steps # << >>
  /\ steps[1].event_id = "NET-002"
  /\ steps[1].record.severity = "High"

\* C25: in a result of search_alarm_documentation, documentation_found
\* implies search_performed, whatever dict the adapter returned and also
\* when the search raised; and in a result built from the dict
\* MCPToolManager.search_confluence_content returned, exactly one of
\* documentation_found and fallback_used is true.
C25_SearchFlags ==
  /\ doc_result # << >>
       => (doc_result[1].documentation_found
             => doc_result[1].search_performed)
  /\ \A o \in {Returned(d) : d \in AdapterResults(<< >>)}
                \cup {Raised(e) : e \in Errors} :
        LET r == search_alarm_documentation(alarm, << >>, o)
        IN r.documentation_found => r.search_performed
  /\ (doc_result # << >> /\ search_outcome[1].status # "raised")
       => /\ doc_result[1].search_results.status = search_outcome[1].status
          /\ doc_result[1].documentation_found
               # doc_result[1].fallback_used

\* A search through MCPToolManager found documentation: the search was
\* performed and the fallback was not used.
C25_Witness ==
  /\ pc = "analysis"
  /\ doc_result # << >>
  /\ search_outcome[1].status = "success"
  /\ doc_result[1].documentation_found = TRUE
  /\ doc_result[1].search_performed = TRUE
  /\ doc_result[1].fallback_used = FALSE

\* The position of a stage in the pipeline.
StageRank(p) ==
  CASE p = "cli" -> 0
    [] p = "returned" -> 1
    [] p = "idle" -> 1
    [] p = "analysis" -> 2
    [] p = "action" -> 3
    [] p = "done" -> 4

\* analyze_alert has returned a result of status success or error.
Terminal ==
  /\ pc = "done"
  /\ result # << >>
  /\ result[1].status \in {"success", "error"}

\* C26: when the agent run of each stage returns or raises, an invocation
\* of analyze_alert that has entered the analysis or the action stage
\* reaches a terminal result of status success or error; a step never
\* leads back to a stage or into the stage the run is in, and no agent is
\* invoked a second time.
C26_Terminates ==
  /\ [][/\ pc' # pc => StageRank(pc') > StageRank(pc)
        /\ calls'.analysis <= 1
        /\ calls'.frontline <= 1
        /\ Terminal => (pc' = pc /\ result' = result)]_vars
  /\ (pc \in {"analysis", "action"}) ~> Terminal

\* An invocation ended with status success after the analysis agent had
\* searched, classified and looked up, and each agent had run once.
C26_Witness ==
  /\ Terminal
  /\ result[1].status = "success"
  /\ calls = [analysis |-> 1, frontline |-> 1]
  /\ doc_result # << >>
  /\ last_event_id # << >>
  /\ steps # << >>

====
